---- MODULE Spec2Model ----
(***************************************************************************)
(* Cue Sheet Compiler: the configuration-sheet codec (parseConfigSheet,    *)
(* writeConfigSheet), the workbook builder (buildWorkbook), the upload     *)
(* step (parseFile, handleParsed) and the gap segmentation.                *)
(*                                                                         *)
(* Text values are sequences of one-character strings, so that trimming,   *)
(* splitting, joining and number formatting are computed.  Sheet keys are  *)
(* strings; KeyNorm is key.trim().toLowerCase() over the spellings used.   *)
(***************************************************************************)
EXTENDS Integers, Sequences, FiniteSets, TLC

VARIABLES
    sheet,        \* codec: the (key, value) rows of the Configuration sheet
    prevSheet,    \* codec: the rows the last encode started from
    encConfig,    \* codec: the configuration the last encode wrote
    nEnc,         \* codec: number of encodes performed
    step,         \* app: "upload" | "configure"
    config,       \* app: AppState.config
    upload,       \* app: the uploaded file (its sheets, byte length, loadability)
    savedConfig,  \* app: what parseFile returned as savedConfig
    workbook,     \* app: what buildWorkbook returned for the state as it stands
    rows,         \* gap: the filtered rows (their time cell)
    gapCfg,       \* gap: [timeColumn, gapThresholdSeconds]
    gi,           \* gap: loop index into rows
    prevSecs,     \* gap: the loop's prevSecs
    outputRows,   \* gap: the loop's outputRows
    call,         \* calls: the function last called, with its arguments
    ret,          \* calls: what that call returned
    exporting,    \* ConfigureStep: useState(false), the mounted instance's flag
    exportingPdf, \* ConfigureStep: useState(false), the mounted instance's flag
    exportError,  \* ConfigureStep: useState(null), the mounted instance's message
    inFlight      \* ConfigureStep: the exports started and not yet settled

vars == <<sheet, prevSheet, encConfig, nEnc, step, config, upload, savedConfig,
          workbook, rows, gapCfg, gi, prevSecs, outputRows, call, ret,
          exporting, exportingPdf, exportError, inFlight>>

codecVars == <<sheet, prevSheet, encConfig, nEnc>>
appVars   == <<step, config, upload, savedConfig, workbook>>
gapVars   == <<rows, gapCfg, gi, prevSecs, outputRows>>
callVars  == <<call, ret>>
exportVars == <<exporting, exportingPdf, exportError, inFlight>>

(***************************************************************************)
(* Text helpers                                                            *)
(***************************************************************************)
NoStr == <<>>

\* the element of a one-element set: TheOne({F(x) : x \in {e}}) is F(e), with
\* e computed once however often F uses it
TheOne(S) == CHOOSE x \in S : TRUE

Upper == <<"A","B","C","D","E","F","G","H","I","J","K","L","M",
           "N","O","P","Q","R","S","T","U","V","W","X","Y","Z">>
Lower == <<"a","b","c","d","e","f","g","h","i","j","k","l","m",
           "n","o","p","q","r","s","t","u","v","w","x","y","z">>

LowerChar(c) ==
    IF \E i \in 1..26 : Upper[i] = c
    THEN Lower[CHOOSE i \in 1..26 : Upper[i] = c]
    ELSE c

\* String.prototype.toLowerCase
ToLower(s) == [i \in 1..Len(s) |-> LowerChar(s[i])]

IsSpace(c) == c = " "

RECURSIVE TrimLeft(_)
TrimLeft(s) ==
    IF s # <<>> /\ IsSpace(Head(s)) THEN TrimLeft(Tail(s)) ELSE s

RECURSIVE TrimRight(_)
TrimRight(s) ==
    IF s # <<>> /\ IsSpace(s[Len(s)]) THEN TrimRight(SubSeq(s, 1, Len(s) - 1)) ELSE s

\* String.prototype.trim
Trim(s) == TrimRight(TrimLeft(s))

\* String.prototype.split(","): the pieces between the commas, empty pieces kept
RECURSIVE SplitComma(_, _)
SplitComma(s, cur) ==
    IF s = <<>> THEN <<cur>>
    ELSE IF Head(s) = "," THEN <<cur>> \o SplitComma(Tail(s), <<>>)
    ELSE SplitComma(Tail(s), Append(cur, Head(s)))

\* Array.prototype.join(", ")
RECURSIVE JoinCommaSpace(_)
JoinCommaSpace(list) ==
    IF list = <<>> THEN <<>>
    ELSE IF Len(list) = 1 THEN list[1]
    ELSE list[1] \o <<",", " ">> \o JoinCommaSpace(Tail(list))

\* Array.prototype.filter(Boolean) over texts: the non-empty ones
RECURSIVE FilterNonEmpty(_)
FilterNonEmpty(list) ==
    IF list = <<>> THEN <<>>
    ELSE IF Head(list) # <<>> THEN <<Head(list)>> \o FilterNonEmpty(Tail(list))
    ELSE FilterNonEmpty(Tail(list))

\* value.split(",").map(s => s.trim()).filter(Boolean), or [] for an empty value
SplitList(value) ==
    IF value = <<>> THEN <<>>
    ELSE LET parts == SplitComma(value, <<>>)
             trimmed == [i \in 1..Len(parts) |-> Trim(parts[i])]
         IN FilterNonEmpty(trimmed)

Digits == <<"0","1","2","3","4","5","6","7","8","9">>
IsDigit(c) == \E i \in 1..10 : Digits[i] = c
DigitVal(c) == (CHOOSE i \in 1..10 : Digits[i] = c) - 1
AllDigits(s) == s # <<>> /\ \A i \in 1..Len(s) : IsDigit(s[i])

\* parseInt over a run of digits
RECURSIVE DigitsToInt(_)
DigitsToInt(s) ==
    IF s = <<>> THEN 0
    ELSE 10 * DigitsToInt(SubSeq(s, 1, Len(s) - 1)) + DigitVal(s[Len(s)])

RECURSIVE NatToStr(_)
NatToStr(n) ==
    IF n < 10 THEN <<Digits[n + 1]>>
    ELSE NatToStr(n \div 10) \o <<Digits[(n % 10) + 1]>>

\* String(n) for an integer n
IntToStr(n) == IF n < 0 THEN <<"-">> \o NatToStr(0 - n) ELSE NatToStr(n)

\* String(b) for a boolean b
BoolToStr(b) == IF b THEN <<"t","r","u","e">> ELSE <<"f","a","l","s","e">>

StrYes == <<"y","e","s">>
StrNo  == <<"n","o">>
StrTrue == <<"t","r","u","e">>

\* Number(value) on trimmed text: [nan |-> TRUE] for text that is no integer
\* literal; the empty text is 0.
ToNumber(value) ==
    IF value = <<>> THEN [nan |-> FALSE, n |-> 0]
    ELSE IF AllDigits(value) THEN [nan |-> FALSE, n |-> DigitsToInt(value)]
    ELSE IF Head(value) = "-" /\ AllDigits(Tail(value))
         THEN [nan |-> FALSE, n |-> 0 - DigitsToInt(Tail(value))]
    ELSE [nan |-> TRUE, n |-> 0]

(***************************************************************************)
(* timeUtils                                                               *)
(***************************************************************************)
IndexOfColon(s) ==
    IF \E i \in 1..Len(s) : s[i] = ":"
    THEN CHOOSE i \in 1..Len(s) : s[i] = ":" /\ \A j \in 1..(i - 1) : s[j] # ":"
    ELSE 0

\* parseMMSSInput: /^(\d+):(\d{2})$/ on the trimmed value, else 0
parseMMSSInput(value) ==
    LET t == Trim(value)
        c == IndexOfColon(t)
        mm == SubSeq(t, 1, c - 1)
        ss == SubSeq(t, c + 1, Len(t))
    IN IF c > 0 /\ AllDigits(mm) /\ Len(ss) = 2 /\ AllDigits(ss)
       THEN DigitsToInt(mm) * 60 + DigitsToInt(ss)
       ELSE 0

\* String(s).padStart(2, "0")
PadStart2(s) == IF Len(s) < 2 THEN <<"0">> \o s ELSE s

\* formatMMSS: `${floor(seconds / 60)}:${String(seconds % 60).padStart(2, "0")}`
formatMMSS(seconds) ==
    IntToStr(seconds \div 60) \o <<":">> \o PadStart2(IntToStr(seconds % 60))

(***************************************************************************)
(* Cell values.  A cell is null (absent, null or undefined), a text or a   *)
(* number; a number is the rational num/den with den > 0, so that Excel    *)
(* serial times (fractions of a day) and fractional seconds are values.    *)
(* A row is a function from column names to cells.                         *)
(***************************************************************************)
NullCell == [t |-> "null"]
StrCell(s) == [t |-> "str", s |-> s]
NumCell(num, den) == [t |-> "num", num |-> num, den |-> den]

\* row[col], undefined for a column the row does not have
GetCell(row, col) == IF col \in DOMAIN row THEN row[col] ELSE NullCell

\* String.prototype.split(":")
RECURSIVE SplitColon(_, _)
SplitColon(s, cur) ==
    IF s = <<>> THEN <<cur>>
    ELSE IF Head(s) = ":" THEN <<cur>> \o SplitColon(Tail(s), <<>>)
    ELSE SplitColon(Tail(s), Append(cur, Head(s)))

\* the number of digits of s starting at position from
DigitRunLen(s, from) ==
    LET stops == {i \in from..Len(s) : ~IsDigit(s[i])}
    IN IF stops = {} THEN IF from > Len(s) THEN 0 ELSE Len(s) - from + 1
       ELSE (CHOOSE i \in stops : \A j \in stops : i <= j) - from

RECURSIVE Pow10(_)
Pow10(k) == IF k = 0 THEN 1 ELSE 10 * Pow10(k - 1)

\* parseFloat on trimmed text: an optional sign, digits, an optional fraction,
\* whatever follows is ignored; NaN without any digit.  (Exponents and
\* "Infinity" are outside the texts modelled.)
parseFloat(s) ==
    LET sgn == IF s # <<>> /\ s[1] \in {"-", "+"} THEN 1 ELSE 0
        neg == sgn = 1 /\ s[1] = "-"
        ni == DigitRunLen(s, sgn + 1)
        dot == sgn + ni + 1
        hasDot == dot <= Len(s) /\ s[dot] = "."
        nf == IF hasDot THEN DigitRunLen(s, dot + 1) ELSE 0
        intv == IF ni = 0 THEN 0 ELSE DigitsToInt(SubSeq(s, sgn + 1, sgn + ni))
        fracv == IF nf = 0 THEN 0 ELSE DigitsToInt(SubSeq(s, dot + 1, dot + nf))
        den == Pow10(nf)
        mag == intv * den + fracv
    IN IF ni = 0 /\ nf = 0 THEN [nan |-> TRUE, num |-> 0, den |-> 1]
       ELSE [nan |-> FALSE, num |-> IF neg THEN 0 - mag ELSE mag, den |-> den]

\* value * 86400 for the value num/den as a fraction, reduced by 100 where
\* den allows it so that the products stay within 32 bits
DayProduct(num, den) ==
    IF den % 100 = 0 THEN [num |-> num * 864, den |-> den \div 100]
    ELSE [num |-> num * 86400, den |-> den]

\* the numeric rule with the day fraction rounded down
parseTimeNumberFloor(num, den) ==
    IF num > 0 /\ num < den
    THEN <<[num |-> DayProduct(num, den).num \div DayProduct(num, den).den, den |-> 1]>>
    ELSE IF num >= den THEN <<[num |-> num, den |-> den]>>
    ELSE <<>>

\* parseTimeToSeconds on a number: <<>> is null, <<q>> the seconds q;
\* Math.round(x) is floor(x + 1/2)
parseTimeNumber(num, den) ==
    IF num > 0 /\ num < den
    THEN <<[num |-> (2 * DayProduct(num, den).num + DayProduct(num, den).den)
                        \div (2 * DayProduct(num, den).den),
            den |-> 1]>>
    ELSE IF num >= den THEN <<[num |-> num, den |-> den]>>
    ELSE <<>>

parseTimeToSeconds(value) ==
    IF value.t = "null" THEN <<>>
    ELSE IF value.t = "num" THEN parseTimeNumber(value.num, value.den)
    ELSE IF value.t = "str" THEN
        IF value.s = <<>> THEN <<>>
        ELSE
        LET trimmed == Trim(value.s)
            p == SplitColon(trimmed, <<>>)
            hms == /\ Len(p) = 3
                   /\ AllDigits(p[1])
                   /\ AllDigits(p[2]) /\ Len(p[2]) <= 2
                   /\ AllDigits(p[3]) /\ Len(p[3]) <= 2
            ms == /\ Len(p) = 2
                  /\ AllDigits(p[1]) /\ Len(p[1]) <= 2
                  /\ AllDigits(p[2]) /\ Len(p[2]) = 2
            n == parseFloat(trimmed)
        IN IF hms
           THEN <<[num |-> DigitsToInt(p[1]) * 3600 + DigitsToInt(p[2]) * 60
                           + DigitsToInt(p[3]), den |-> 1]>>
           ELSE IF ms
           THEN <<[num |-> DigitsToInt(p[1]) * 60 + DigitsToInt(p[2]), den |-> 1]>>
           ELSE IF ~n.nan THEN parseTimeNumber(n.num, n.den)
           ELSE <<>>
    ELSE <<>>

\* b - a >= thresholdSeconds
hasGapAtLeast(a, b, thresholdSeconds) ==
    IF thresholdSeconds <= 0 THEN FALSE
    ELSE b.num * a.den - a.num * b.den >= thresholdSeconds * a.den * b.den

hasGap(a, b, thresholdSeconds) ==
    IF thresholdSeconds <= 0 THEN FALSE
    ELSE b.num * a.den - a.num * b.den > thresholdSeconds * a.den * b.den

(***************************************************************************)
(* globMatch.  The pattern is turned into a regular expression: the        *)
(* characters . + ^ $ { } ( ) | [ ] \ are escaped, * becomes .* and every  *)
(* other character stands as it is, so that ? stays the quantifier of the  *)
(* expression syntax: it makes the atom before it optional, it makes a     *)
(* quantifier before it lazy, and anywhere else the expression does not    *)
(* compile (SyntaxError).  A compiled expression is a sequence of tokens   *)
(* [any, c, q]: any character or the character c; q is "one", "opt" or     *)
(* "star".  Values hold no line terminator.                                *)
(***************************************************************************)
\* the compiler after one more character of the pattern; last is what the
\* preceding characters ended in: "start", "atom", "quant" or "lazy"
globCompileStep(st, c) ==
    IF ~st.ok THEN st
    ELSE IF c = "*"
    THEN [ok |-> TRUE, last |-> "quant",
          tokens |-> Append(st.tokens, [any |-> TRUE, c |-> c, q |-> "star"])]
    ELSE IF c = "?"
    THEN IF st.last = "atom"
         THEN [ok |-> TRUE, last |-> "quant",
               tokens |-> [st.tokens EXCEPT ![Len(st.tokens)].q = "opt"]]
         ELSE IF st.last = "quant" THEN [st EXCEPT !.last = "lazy"]
         ELSE [st EXCEPT !.ok = FALSE]
    ELSE [ok |-> TRUE, last |-> "atom",
          tokens |-> Append(st.tokens, [any |-> FALSE, c |-> c, q |-> "one"])]

\* new RegExp(`^${escaped}$`, "i") over the first n characters of the pattern
RECURSIVE globCompile(_, _)
globCompile(pattern, n) ==
    IF n = 0 THEN [ok |-> TRUE, last |-> "start", tokens |-> <<>>]
    ELSE TheOne({ globCompileStep(st, pattern[n]) : st \in {globCompile(pattern, n - 1)} })

\* RegExp.test: the tokens from ti on match the value from vi to its end
RECURSIVE regexTest(_, _, _, _)
regexTest(tokens, ti, value, vi) ==
    IF ti > Len(tokens) THEN vi > Len(value)
    ELSE IF tokens[ti].q = "star"
    THEN \E k \in vi..(Len(value) + 1) : regexTest(tokens, ti + 1, value, k)
    ELSE \/ tokens[ti].q = "opt" /\ regexTest(tokens, ti + 1, value, vi)
         \/ /\ vi <= Len(value)
            /\ LowerChar(tokens[ti].c) = LowerChar(value[vi])
            /\ regexTest(tokens, ti + 1, value, vi + 1)

\* globMatch: [threw, result]
globMatch(pattern, value) ==
    IF pattern = <<>> THEN [threw |-> FALSE, result |-> FALSE]
    ELSE LET re == globCompile(pattern, Len(pattern))
         IN IF ~re.ok THEN [threw |-> TRUE, result |-> FALSE]
            ELSE [threw |-> FALSE, result |-> regexTest(re.tokens, 1, value, 1)]

(***************************************************************************)
(* types: defaults                                                         *)
(***************************************************************************)
DEFAULT_FONT == <<"T","i","m","e","s">>     \* "Times New Roman", abbreviated
DEFAULT_FONT_SIZE == 11

defaultTitleBlock ==
    [enabled |-> FALSE, showName |-> <<>>, companyName |-> <<>>,
     lightingDesigner |-> <<>>, version |-> <<>>, note1 |-> <<>>,
     note2 |-> <<>>, imageDataUrl |-> <<>>]

defaultConfig ==
    [typeColumn |-> <<>>, timeColumn |-> <<>>, gapThresholdSeconds |-> 2,
     titleBlock |-> defaultTitleBlock, tabs |-> <<>>,
     includeMasterSheet |-> TRUE, rowFormats |-> <<>>, cellConditions |-> <<>>]

\* ids come from Date.now() and Math.random(); the codec never reads them
FreshId == "fresh"

makeRowFormatRule(rowType) ==
    [id |-> FreshId, rowType |-> rowType, bgColor |-> <<>>, bold |-> FALSE,
     italic |-> FALSE, underline |-> FALSE, fontSize |-> DEFAULT_FONT_SIZE,
     fontName |-> DEFAULT_FONT]

makeCellConditionRule ==
    [id |-> FreshId, column |-> <<>>, contains |-> <<>>, bgColor |-> <<>>,
     bold |-> FALSE, italic |-> FALSE, underline |-> FALSE,
     fontSize |-> DEFAULT_FONT_SIZE, fontName |-> DEFAULT_FONT]

(***************************************************************************)
(* Sheet keys                                                              *)
(***************************************************************************)
\* key.trim().toLowerCase() for the key spellings that occur in sheets
KeyNorm(k) ==
    CASE k = "Column Mapping" -> "column mapping"
      [] k = "Gap Threshold" -> "gap threshold"
      [] k = "Title Block" -> "title block"
      [] k = "Output Tabs" -> "output tabs"
      [] k = "Row Formats" -> "row formats"
      [] k = "Override Rules" -> "override rules"
      [] k = "Type Column" -> "type column"
      [] k = "Time Column" -> "time column"
      [] k = "Gap Threshold (MM:SS)" -> "gap threshold (mm:ss)"
      [] k = "Gap Time" -> "gap time"
      [] k = "Title Block Enabled" -> "title block enabled"
      [] k = "Include Title Block" -> "include title block"
      [] k = "Show Name" -> "show name"
      [] k = "Company Name" -> "company name"
      [] k = "Lighting Designer" -> "lighting designer"
      [] k = "Version" -> "version"
      [] k = "Note 1" -> "note 1"
      [] k = "Note 2" -> "note 2"
      [] k = "Image" -> "image"
      [] k = "Include Master Sheet" -> "include master sheet"
      [] k = "Tab Name" -> "tab name"
      [] k = " TAB NAME " -> "tab name"
      [] k = "Row Types" -> "row types"
      [] k = "Tab Row Types" -> "tab row types"
      [] k = "Columns" -> "columns"
      [] k = "Tab Columns" -> "tab columns"
      [] k = "Row Name" -> "row name"
      [] k = "Row Colour" -> "row colour"
      [] k = "Row BG Color" -> "row bg color"
      [] k = "Row Font Color" -> "row font color"
      [] k = "Row Style" -> "row style"
      [] k = "Row Bold" -> "row bold"
      [] k = "Row Italic" -> "row italic"
      [] k = "Row Font Size" -> "row font size"
      [] k = "Row Font" -> "row font"
      [] k = "Row Font Name" -> "row font name"
      [] k = "Override Column" -> "override column"
      [] k = "Override Value" -> "override value"
      [] k = "Override Colour" -> "override colour"
      [] k = "Override BG Color" -> "override bg color"
      [] k = "Override Font Color" -> "override font color"
      [] k = "Override Style" -> "override style"
      [] k = "Override Bold" -> "override bold"
      [] k = "Override Italic" -> "override italic"
      [] k = "Override Font Size" -> "override font size"
      [] k = "Override Font" -> "override font"
      [] k = "Override Font Name" -> "override font name"
      [] k = "Custom Note" -> "custom note"
      [] k = "  " -> ""
      [] OTHER -> k

SECTION_HEADERS ==
    {"column mapping", "gap threshold", "title block",
     "output tabs", "row formats", "override rules"}

(***************************************************************************)
(* parseConfigSheet                                                        *)
(***************************************************************************)
SetField(f, k, v) == (k :> v) @@ f

StrBold      == <<"b","o","l","d">>
StrItalic    == <<"i","t","a","l","i","c">>
StrUnderline == <<"u","n","d","e","r","l","i","n","e">>

\* value.toLowerCase().split(",").map(s => s.trim())
StyleParts(value) ==
    LET parts == SplitComma(ToLower(value), <<>>)
    IN [i \in 1..Len(parts) |-> Trim(parts[i])]

Includes(list, x) == \E i \in 1..Len(list) : list[i] = x

decodeInit ==
    [config |-> <<>>, titleBlock |-> <<>>, tabs |-> <<>>, rowFormats |-> <<>>,
     cellConditions |-> <<>>, currentTab |-> <<>>, currentRowFmt |-> <<>>,
     currentCond |-> <<>>]

\* the currently open record with one field replaced, when one is open
PatchCurrent(cur, k, v) == IF cur = <<>> THEN cur ELSE <<[cur[1] EXCEPT ![k] = v]>>

\* the open record with a field set that the record may not have yet
PatchExtra(cur, k, v) == IF cur = <<>> THEN cur ELSE <<SetField(cur[1], k, v)>>

PatchStyle(cur, value) ==
    IF cur = <<>> THEN cur
    ELSE LET p == StyleParts(value)
         IN <<[cur[1] EXCEPT !.bold = Includes(p, StrBold),
                             !.italic = Includes(p, StrItalic),
                             !.underline = Includes(p, StrUnderline)]>>

PatchFontSize(cur, value) ==
    LET n == ToNumber(value)
    IN IF cur # <<>> /\ ~n.nan /\ n.n > 0 THEN PatchCurrent(cur, "fontSize", n.n) ELSE cur

PatchFontName(cur, value) ==
    IF cur # <<>> /\ value # <<>> THEN PatchCurrent(cur, "fontName", value) ELSE cur

\* one iteration of the for-loop over the rows
decodeRow(st, row) ==
    LET key == KeyNorm(row[1])
        value == Trim(row[2])
    IN IF key = "" THEN st
       ELSE IF key \in SECTION_HEADERS THEN st
       ELSE CASE key = "type column" ->
                   [st EXCEPT !.config = SetField(@, "typeColumn", value)]
              [] key = "time column" ->
                   [st EXCEPT !.config = SetField(@, "timeColumn", value)]
              [] key \in {"gap threshold (mm:ss)", "gap time"} ->
                   LET s == parseMMSSInput(value)
                   IN IF s >= 0
                      THEN [st EXCEPT !.config = SetField(@, "gapThresholdSeconds", s)]
                      ELSE st
              [] key \in {"title block enabled", "include title block"} ->
                   [st EXCEPT !.titleBlock = SetField(@, "enabled", ToLower(value) = StrYes)]
              [] key = "show name" ->
                   [st EXCEPT !.titleBlock = SetField(@, "showName", value)]
              [] key = "company name" ->
                   [st EXCEPT !.titleBlock = SetField(@, "companyName", value)]
              [] key = "lighting designer" ->
                   [st EXCEPT !.titleBlock = SetField(@, "lightingDesigner", value)]
              [] key = "version" ->
                   [st EXCEPT !.titleBlock = SetField(@, "version", value)]
              [] key = "note 1" ->
                   [st EXCEPT !.titleBlock = SetField(@, "note1", value)]
              [] key = "note 2" ->
                   [st EXCEPT !.titleBlock = SetField(@, "note2", value)]
              [] key = "image" ->
                   [st EXCEPT !.titleBlock = SetField(@, "imageDataUrl", value)]
              [] key = "include master sheet" ->
                   [st EXCEPT !.config =
                        SetField(@, "includeMasterSheet", ToLower(value) = StrYes)]
              [] key = "tab name" ->
                   [st EXCEPT !.tabs = @ \o st.currentTab,
                              !.currentTab = <<[id |-> FreshId, name |-> value,
                                                rowTypes |-> <<>>, columns |-> <<>>]>>]
              [] key \in {"row types", "tab row types"} ->
                   [st EXCEPT !.currentTab = PatchCurrent(@, "rowTypes", SplitList(value))]
              [] key \in {"columns", "tab columns"} ->
                   [st EXCEPT !.currentTab = PatchCurrent(@, "columns", SplitList(value))]
              [] key = "row name" ->
                   [st EXCEPT !.rowFormats = @ \o st.currentRowFmt,
                              !.currentRowFmt = <<makeRowFormatRule(value)>>]
              [] key \in {"row colour", "row bg color"} ->
                   [st EXCEPT !.currentRowFmt = PatchCurrent(@, "bgColor", value)]
              [] key = "row font color" ->
                   [st EXCEPT !.currentRowFmt = PatchExtra(@, "fontColor", value)]
              [] key = "row style" ->
                   [st EXCEPT !.currentRowFmt = PatchStyle(@, value)]
              [] key = "row bold" ->
                   [st EXCEPT !.currentRowFmt = PatchCurrent(@, "bold", ToLower(value) = StrTrue)]
              [] key = "row italic" ->
                   [st EXCEPT !.currentRowFmt = PatchCurrent(@, "italic", ToLower(value) = StrTrue)]
              [] key = "row font size" ->
                   [st EXCEPT !.currentRowFmt = PatchFontSize(@, value)]
              [] key \in {"row font", "row font name"} ->
                   [st EXCEPT !.currentRowFmt = PatchFontName(@, value)]
              [] key = "override column" ->
                   [st EXCEPT !.cellConditions = @ \o st.currentCond,
                              !.currentCond =
                                  <<[makeCellConditionRule EXCEPT !.column = value]>>]
              [] key = "override value" ->
                   [st EXCEPT !.currentCond = PatchCurrent(@, "contains", value)]
              [] key \in {"override colour", "override bg color"} ->
                   [st EXCEPT !.currentCond = PatchCurrent(@, "bgColor", value)]
              [] key = "override font color" ->
                   [st EXCEPT !.currentCond = PatchExtra(@, "fontColor", value)]
              [] key = "override style" ->
                   [st EXCEPT !.currentCond = PatchStyle(@, value)]
              [] key = "override bold" ->
                   [st EXCEPT !.currentCond = PatchCurrent(@, "bold", ToLower(value) = StrTrue)]
              [] key = "override italic" ->
                   [st EXCEPT !.currentCond = PatchCurrent(@, "italic", ToLower(value) = StrTrue)]
              [] key = "override font size" ->
                   [st EXCEPT !.currentCond = PatchFontSize(@, value)]
              [] key \in {"override font", "override font name"} ->
                   [st EXCEPT !.currentCond = PatchFontName(@, value)]
              [] OTHER -> st

\* the for-loop over rows lo..hi of rs, started in state st. The range is
\* halved and the first half's state is computed before the second half
\* starts, so that the evaluation does not nest once per row.
RECURSIVE decodeRange(_, _, _, _)
decodeRange(st, rs, lo, hi) ==
    IF lo > hi THEN st
    ELSE IF lo = hi THEN decodeRow(st, rs[lo])
    ELSE TheOne({ decodeRange(left, rs, (lo + hi) \div 2 + 1, hi) :
                    left \in {decodeRange(st, rs, lo, (lo + hi) \div 2)} })

decodeRows(st, rs) == decodeRange(st, rs, 1, Len(rs))

\* defaultConfig().titleBlock overlaid with the decoded title-block fields
MergeTitleBlock(tb) ==
    [k \in DOMAIN defaultTitleBlock |-> IF k \in DOMAIN tb THEN tb[k] ELSE defaultTitleBlock[k]]

\* if (list.length > 0) config.<field> = list
WithList(cfg, field, list) == IF Len(list) > 0 THEN SetField(cfg, field, list) ELSE cfg

\* if (Object.keys(titleBlock).length > 0) config.titleBlock = { defaults, titleBlock }
WithTitleBlock(st) ==
    IF DOMAIN st.titleBlock # {}
    THEN SetField(st.config, "titleBlock", MergeTitleBlock(st.titleBlock))
    ELSE st.config

\* the pushes of the records still open and the assembly of the result
finishDecode(st) ==
    WithList(WithList(WithList(WithTitleBlock(st),
                               "tabs", st.tabs \o st.currentTab),
                      "rowFormats", st.rowFormats \o st.currentRowFmt),
             "cellConditions", st.cellConditions \o st.currentCond)

\* parseConfigSheet: a partial configuration (a function on the fields that
\* were decoded); null is the function with no field
parseConfigSheet(rs) ==
    IF rs = <<>> THEN <<>> ELSE finishDecode(decodeRows(decodeInit, rs))

(***************************************************************************)
(* writeConfigSheet: the snapshot is a sequence of <<key, value>> rows,    *)
(* positions are 1-based                                                   *)
(***************************************************************************)
INDEXED_SINGLETONS ==
    {"type column", "time column", "gap threshold (mm:ss)",
     "company name", "show name", "lighting designer", "version",
     "note 1", "note 2", "title block enabled"}

IdentitySep == <<"|","|","|">>

\* `${column}|||${contains}`
condIdentity(column, contains) == column \o IdentitySep \o contains

\* the inner while-loops: the first position from i on whose key is the
\* anchor key or a section header, or one past the end
SpanEnd(snapshot, i, anchor) ==
    LET stops == { j \in i..Len(snapshot) :
                     \/ KeyNorm(snapshot[j][1]) = anchor
                     \/ KeyNorm(snapshot[j][1]) \in SECTION_HEADERS }
    IN IF stops = {} THEN Len(snapshot) + 1
       ELSE CHOOSE j \in stops : \A m \in stops : j <= m

GROUP_ANCHORS == {"tab name", "row name", "override column"}

\* the outer while-loop's next value of i after the row at i: past the
\* group's span after an anchor row, else the next row
NextIndex(snapshot, i) ==
    LET keyLower == KeyNorm(snapshot[i][1])
    IN IF keyLower \notin SECTION_HEADERS /\ keyLower \notin INDEXED_SINGLETONS
          /\ keyLower \in GROUP_ANCHORS
       THEN SpanEnd(snapshot, i + 1, keyLower)
       ELSE i + 1

\* the positions the outer while-loop visits, from i on
RECURSIVE VisitedFrom(_, _)
VisitedFrom(snapshot, i) ==
    IF i > Len(snapshot) THEN {}
    ELSE {i} \cup VisitedFrom(snapshot, NextIndex(snapshot, i))

\* a Map filled by set(key, position) in increasing position order: each key
\* maps to the last of the positions that have it (keyAt: position -> key)
LastByKey(keyAt) ==
    [k \in {keyAt[i] : i \in DOMAIN keyAt} |->
        CHOOSE i \in DOMAIN keyAt :
            keyAt[i] = k /\ \A j \in DOMAIN keyAt : keyAt[j] = k => j <= i]

\* the contains value the index pass pairs with the override anchor at i:
\* that of the next row if it is an Override Value row, else empty
AnchorContains(snapshot, i) ==
    IF i + 1 <= Len(snapshot) /\ KeyNorm(snapshot[i + 1][1]) = "override value"
    THEN snapshot[i + 1][2] ELSE <<>>

\* the index pass over the snapshot
indexSnapshot(snapshot) ==
    LET visited == VisitedFrom(snapshot, 1)
        keyOf(i) == KeyNorm(snapshot[i][1])
        valOf(i) == snapshot[i][2]
        identOf(i) == condIdentity(snapshot[i][2], AnchorContains(snapshot, i))
    IN [existingSections |-> {keyOf(i) : i \in visited} \cap SECTION_HEADERS,
        singletonIdx |->
            LastByKey([i \in {j \in visited : keyOf(j) \in INDEXED_SINGLETONS} |-> keyOf(i)]),
        tabGroupIdx |-> LastByKey([i \in {j \in visited : keyOf(j) = "tab name"} |-> valOf(i)]),
        rowFmtGroupIdx |-> LastByKey([i \in {j \in visited : keyOf(j) = "row name"} |-> valOf(i)]),
        condGroupIdx |->
            LastByKey([i \in {j \in visited : keyOf(j) = "override column"} |-> identOf(i)])]

\* the encoder's working state: the snapshot and the indexes over it
encodeInit(snapshot) ==
    LET ix == indexSnapshot(snapshot)
    IN [snapshot |-> snapshot, singletonIdx |-> ix.singletonIdx,
        tabGroupIdx |-> ix.tabGroupIdx, rowFmtGroupIdx |-> ix.rowFmtGroupIdx,
        condGroupIdx |-> ix.condGroupIdx, existingSections |-> ix.existingSections]

\* "Ensure section header exists": a blank row (unless the snapshot is empty)
\* and the header row, when the section has never appeared
ensureSection(st, sectionHeader) ==
    IF KeyNorm(sectionHeader) \in st.existingSections THEN st
    ELSE [st EXCEPT
            !.snapshot = (IF Len(@) > 0 THEN Append(@, <<"", <<>>>>) ELSE @)
                           \o <<<<sectionHeader, <<>>>>>>,
            !.existingSections = @ \cup {KeyNorm(sectionHeader)}]

upsertSingleton(st, sectionHeader, key, value) ==
    LET keyLower == KeyNorm(key)
    IN IF keyLower \in DOMAIN st.singletonIdx
       THEN [st EXCEPT !.snapshot[st.singletonIdx[keyLower]][2] = value]
       ELSE LET s1 == ensureSection(st, sectionHeader)
            IN [s1 EXCEPT !.snapshot = Append(@, <<key, value>>),
                          !.singletonIdx = SetField(@, keyLower, Len(s1.snapshot) + 1)]

\* the in-place update loops: within the span after the anchor at base, every
\* row whose key is a key of upd takes upd's value
updateSpan(snapshot, base, anchor, upd) ==
    LET stop == SpanEnd(snapshot, base + 1, anchor)
    IN [j \in 1..Len(snapshot) |->
          IF j > base /\ j < stop /\ KeyNorm(snapshot[j][1]) \in DOMAIN upd
          THEN <<snapshot[j][1], upd[KeyNorm(snapshot[j][1])]>>
          ELSE snapshot[j]]

upsertTab(st, tab) ==
    IF tab.name \in DOMAIN st.tabGroupIdx
    THEN [st EXCEPT !.snapshot =
            updateSpan(@, st.tabGroupIdx[tab.name], "tab name",
                ("tab row types" :> JoinCommaSpace(tab.rowTypes))
                @@ ("tab columns" :> JoinCommaSpace(tab.columns)))]
    ELSE LET s1 == ensureSection(st, "Output Tabs")
         IN [s1 EXCEPT
               !.tabGroupIdx = SetField(@, tab.name, Len(s1.snapshot) + 1),
               !.snapshot = @ \o << <<"Tab Name", tab.name>>,
                                    <<"Tab Row Types", JoinCommaSpace(tab.rowTypes)>>,
                                    <<"Tab Columns", JoinCommaSpace(tab.columns)>> >>]

upsertRowFormat(st, fmt) ==
    IF fmt.rowType \in DOMAIN st.rowFmtGroupIdx
    THEN [st EXCEPT !.snapshot =
            updateSpan(@, st.rowFmtGroupIdx[fmt.rowType], "row name",
                ("row bold" :> BoolToStr(fmt.bold))
                @@ ("row italic" :> BoolToStr(fmt.italic))
                @@ ("row bg color" :> fmt.bgColor)
                @@ ("row font size" :> IntToStr(fmt.fontSize))
                @@ ("row font name" :> fmt.fontName))]
    ELSE LET s1 == ensureSection(st, "Row Formats")
         IN [s1 EXCEPT
               !.rowFmtGroupIdx = SetField(@, fmt.rowType, Len(s1.snapshot) + 1),
               !.snapshot = @ \o << <<"Row Name", fmt.rowType>>,
                                    <<"Row Bold", BoolToStr(fmt.bold)>>,
                                    <<"Row Italic", BoolToStr(fmt.italic)>>,
                                    <<"Row BG Color", fmt.bgColor>>,
                                    <<"Row Font Size", IntToStr(fmt.fontSize)>>,
                                    <<"Row Font Name", fmt.fontName>> >>]

upsertCondition(st, cond) ==
    LET identity == condIdentity(cond.column, cond.contains)
    IN IF identity \in DOMAIN st.condGroupIdx
       THEN [st EXCEPT !.snapshot =
               updateSpan(@, st.condGroupIdx[identity], "override column",
                   ("override bold" :> BoolToStr(cond.bold))
                   @@ ("override italic" :> BoolToStr(cond.italic))
                   @@ ("override bg color" :> cond.bgColor)
                   @@ ("override font size" :> IntToStr(cond.fontSize))
                   @@ ("override font name" :> cond.fontName))]
       ELSE LET s1 == ensureSection(st, "Override Rules")
            IN [s1 EXCEPT
                  !.condGroupIdx = SetField(@, identity, Len(s1.snapshot) + 1),
                  !.snapshot = @ \o << <<"Override Column", cond.column>>,
                                       <<"Override Value", cond.contains>>,
                                       <<"Override Bold", BoolToStr(cond.bold)>>,
                                       <<"Override Italic", BoolToStr(cond.italic)>>,
                                       <<"Override BG Color", cond.bgColor>>,
                                       <<"Override Font Size", IntToStr(cond.fontSize)>>,
                                       <<"Override Font Name", cond.fontName>> >>]

RECURSIVE upsertTabs(_, _)
upsertTabs(st, tabs) ==
    IF tabs = <<>> THEN st ELSE upsertTabs(upsertTab(st, Head(tabs)), Tail(tabs))

RECURSIVE upsertRowFormats(_, _)
upsertRowFormats(st, fmts) ==
    IF fmts = <<>> THEN st
    ELSE upsertRowFormats(upsertRowFormat(st, Head(fmts)), Tail(fmts))

RECURSIVE upsertConditions(_, _)
upsertConditions(st, conds) ==
    IF conds = <<>> THEN st
    ELSE upsertConditions(upsertCondition(st, Head(conds)), Tail(conds))

\* "Write config values into snapshot": the ten singletons, in the code's order
upsertSingletons(st, cfg) ==
    LET tb == cfg.titleBlock
        s1 == upsertSingleton(st, "Column Mapping", "Type Column", cfg.typeColumn)
        s2 == upsertSingleton(s1, "Gap Threshold", "Gap Threshold (MM:SS)",
                  IF cfg.gapThresholdSeconds > 0
                  THEN formatMMSS(cfg.gapThresholdSeconds) ELSE <<>>)
        s3 == upsertSingleton(s2, "Gap Threshold", "Time Column", cfg.timeColumn)
        s4 == upsertSingleton(s3, "Title Block", "Title Block Enabled",
                  IF tb.enabled THEN StrYes ELSE StrNo)
        s5 == upsertSingleton(s4, "Title Block", "Company Name", tb.companyName)
        s6 == upsertSingleton(s5, "Title Block", "Show Name", tb.showName)
        s7 == upsertSingleton(s6, "Title Block", "Lighting Designer", tb.lightingDesigner)
        s8 == upsertSingleton(s7, "Title Block", "Version", tb.version)
        s9 == upsertSingleton(s8, "Title Block", "Note 1", tb.note1)
    IN upsertSingleton(s9, "Title Block", "Note 2", tb.note2)

\* writeConfigSheet between reading the existing sheet and writing it back:
\* the final snapshot for an existing snapshot and a configuration
encodeSnapshot(snapshot, cfg) ==
    LET s0 == encodeInit(snapshot)
        s1 == upsertSingletons(s0, cfg)
        s2 == upsertTabs(s1, cfg.tabs)
        s3 == upsertRowFormats(s2, cfg.rowFormats)
        s4 == upsertConditions(s3, cfg.cellConditions)
    IN s4.snapshot

(***************************************************************************)
(* Bounded inputs of the codec                                             *)
(***************************************************************************)
MaxTabs == 2
MaxRowFormats == 1
MaxConditions == 1
MaxEncodes == 2

SeqsUpTo(S, n) == UNION {[1..k -> S] : k \in 0..n}

TabPool ==
    { [id |-> "t1", name |-> <<"X">>, rowTypes |-> << <<"A">> >>,
       columns |-> << <<"a">>, <<"b">> >>],
      [id |-> "t2", name |-> <<"X">>, rowTypes |-> <<>>, columns |-> << <<"b">> >>],
      [id |-> "t3", name |-> <<"Y">>, rowTypes |-> << <<"A">>, <<"B">> >>,
       columns |-> << <<"a">> >>] }

RowFormatPool ==
    { [id |-> "r1", rowType |-> <<"A">>, bgColor |-> <<"#","f">>, bold |-> TRUE,
       italic |-> FALSE, underline |-> FALSE, fontSize |-> 14, fontName |-> <<"H">>],
      [id |-> "r2", rowType |-> <<"A">>, bgColor |-> <<>>, bold |-> FALSE,
       italic |-> TRUE, underline |-> TRUE, fontSize |-> 11, fontName |-> DEFAULT_FONT],
      [id |-> "r3", rowType |-> <<"B">>, bgColor |-> <<"#","0">>, bold |-> FALSE,
       italic |-> FALSE, underline |-> FALSE, fontSize |-> 9, fontName |-> <<"H">>] }

ConditionPool ==
    { [id |-> "c1", column |-> <<"c">>, contains |-> <<"P","*">>, bgColor |-> <<"#","f">>,
       bold |-> TRUE, italic |-> FALSE, underline |-> FALSE, fontSize |-> 12,
       fontName |-> <<"H">>],
      [id |-> "c2", column |-> <<"c">>, contains |-> <<>>, bgColor |-> <<>>,
       bold |-> FALSE, italic |-> TRUE, underline |-> FALSE, fontSize |-> 11,
       fontName |-> DEFAULT_FONT] }

\* the singleton part of a configuration: the defaults, or every field set
SingletonPool ==
    { [typeColumn |-> <<>>, timeColumn |-> <<>>, gapThresholdSeconds |-> 2,
       titleBlock |-> defaultTitleBlock, includeMasterSheet |-> TRUE],
      [typeColumn |-> <<"T">>, timeColumn |-> <<"M">>, gapThresholdSeconds |-> 90,
       titleBlock |-> [enabled |-> TRUE, showName |-> <<"S">>, companyName |-> <<"C">>,
                       lightingDesigner |-> <<"L">>, version |-> <<"1">>,
                       note1 |-> <<"n">>, note2 |-> <<"m">>,
                       imageDataUrl |-> <<"d","a","t","a",":">>],
       includeMasterSheet |-> FALSE] }

mkConfig(sg, tabs, rowFormats, cellConditions) ==
    [typeColumn |-> sg.typeColumn, timeColumn |-> sg.timeColumn,
     gapThresholdSeconds |-> sg.gapThresholdSeconds, titleBlock |-> sg.titleBlock,
     tabs |-> tabs, includeMasterSheet |-> sg.includeMasterSheet,
     rowFormats |-> rowFormats, cellConditions |-> cellConditions]

Configs ==
    { mkConfig(sg, t, r, c) :
        sg \in SingletonPool, t \in SeqsUpTo(TabPool, MaxTabs),
        r \in SeqsUpTo(RowFormatPool, MaxRowFormats),
        c \in SeqsUpTo(ConditionPool, MaxConditions) }

singletonsOf(c) ==
    <<c.typeColumn, c.timeColumn, c.gapThresholdSeconds, c.titleBlock, c.includeMasterSheet>>

\* configurations one editing step away from c: at most one of the singleton
\* part, the tab list, the row-format list and the override list differs
EditsOf(c) ==
    { d \in Configs :
        Cardinality({ i \in 1..4 :
            CASE i = 1 -> singletonsOf(d) # singletonsOf(c)
              [] i = 2 -> d.tabs # c.tabs
              [] i = 3 -> d.rowFormats # c.rowFormats
              [] i = 4 -> d.cellConditions # c.cellConditions }) <= 1 }

\* a sheet in the legacy spelling, with a row the engine does not recognize
SheetLegacy ==
    << <<"Gap Time", <<"1",":","3","0">> >>,
       <<"Include Title Block", <<"y","e","s">> >>,
       <<"Custom Note", <<"k">> >>,
       <<"Output Tabs", <<>> >>,
       <<"Tab Name", <<"Z">> >>,
       <<"Row Types", <<"A",","," ","B">> >>,
       <<"Columns", <<"a">> >>,
       <<"", <<>> >>,
       <<"Row Formats", <<>> >>,
       <<"Row Name", <<"B">> >>,
       <<"Row Colour", <<"#","f">> >>,
       <<"Row Style", <<"b","o","l","d",","," ","u","n","d","e","r","l","i","n","e">> >> >>

\* a sheet whose override group holds an unrecognized sub-key after its anchor
SheetForeign ==
    << <<"Override Rules", <<>> >>,
       <<"Override Column", <<"c">> >>,
       <<"Custom Note", <<"k">> >>,
       <<"Override Value", <<"P","*">> >>,
       <<"Override Bold", <<"t","r","u","e">> >>,
       <<"Override BG Color", <<"#","f">> >> >>

InitialSheets == {<<>>, SheetLegacy, SheetForeign}

(***************************************************************************)
(* Idle values of the parts a specification does not exercise              *)
(***************************************************************************)
NoUpload == [sheets |-> <<>>, byteLength |-> 0, loadable |-> FALSE]
NoWorkbook == [status |-> "none", sheets |-> <<>>]

AppIdle ==
    /\ step = "upload" /\ config = defaultConfig /\ upload = NoUpload
    /\ savedConfig = <<>> /\ workbook = NoWorkbook

GapIdle ==
    /\ rows = <<>> /\ gapCfg = [timeColumn |-> <<>>, gapThresholdSeconds |-> 0]
    /\ gi = 0 /\ prevSecs = <<>> /\ outputRows = <<>>

CodecIdle ==
    /\ sheet = <<>> /\ prevSheet = <<>> /\ encConfig = defaultConfig /\ nEnc = 0

NoCall == [fn |-> "none"]

CallIdle == call = NoCall /\ ret = NoCall

\* no export state: the values a ConfigureStep instance is mounted with
NoError == "null"
ExportIdle ==
    /\ exporting = FALSE /\ exportingPdf = FALSE /\ exportError = NoError
    /\ inFlight = <<>>

(***************************************************************************)
(* Codec specification: encodes applied to a sheet                         *)
(***************************************************************************)
CodecInit ==
    /\ sheet \in InitialSheets
    /\ prevSheet = sheet
    /\ encConfig = defaultConfig
    /\ nEnc = 0
    /\ AppIdle /\ GapIdle /\ CallIdle /\ ExportIdle

\* the first export: any configuration is written over the existing sheet
EncodeFirst(c) ==
    /\ nEnc = 0
    /\ sheet' = encodeSnapshot(sheet, c)
    /\ prevSheet' = sheet
    /\ encConfig' = c
    /\ nEnc' = 1
    /\ UNCHANGED <<appVars, gapVars, callVars, exportVars>>

\* a later export, of the same configuration or of one edited once
EncodeAgain(c) ==
    /\ nEnc > 0 /\ nEnc < MaxEncodes
    /\ sheet' = encodeSnapshot(sheet, c)
    /\ prevSheet' = sheet
    /\ encConfig' = c
    /\ nEnc' = nEnc + 1
    /\ UNCHANGED <<appVars, gapVars, callVars, exportVars>>

CodecNext ==
    \/ \E c \in Configs : EncodeFirst(c)
    \/ \E c \in EditsOf(encConfig) : EncodeAgain(c)

SpecCodec == CodecInit /\ [][CodecNext]_vars

(***************************************************************************)
(* Codec claims                                                            *)
(***************************************************************************)
TabFields(t) == <<t.name, t.rowTypes, t.columns>>
RowFormatFields(r) ==
    <<r.rowType, r.bgColor, r.bold, r.italic, r.underline, r.fontSize, r.fontName>>
ConditionFields(r) ==
    <<r.column, r.contains, r.bgColor, r.bold, r.italic, r.underline, r.fontSize,
      r.fontName>>

MapTabFields(l) == [i \in 1..Len(l) |-> TabFields(l[i])]
MapRowFormatFields(l) == [i \in 1..Len(l) |-> RowFormatFields(l[i])]
MapConditionFields(l) == [i \in 1..Len(l) |-> ConditionFields(l[i])]

\* a decoded partial configuration laid over the defaults
OverDefaults(d) ==
    [k \in DOMAIN defaultConfig |-> IF k \in DOMAIN d THEN d[k] ELSE defaultConfig[k]]

\* every field the codec recognizes has in d the value it has in c
SameKnownFields(c, d) ==
    /\ d.typeColumn = c.typeColumn
    /\ d.timeColumn = c.timeColumn
    /\ d.gapThresholdSeconds = c.gapThresholdSeconds
    /\ d.titleBlock = c.titleBlock
    /\ d.includeMasterSheet = c.includeMasterSheet
    /\ MapTabFields(d.tabs) = MapTabFields(c.tabs)
    /\ MapRowFormatFields(d.rowFormats) = MapRowFormatFields(c.rowFormats)
    /\ MapConditionFields(d.cellConditions) = MapConditionFields(c.cellConditions)

\* C1: round trip. Decoding what an encode onto an empty sheet wrote gives,
\* for every field the codec recognizes, the value of the encoded
\* configuration (fields the sheet does not carry read as their defaults).
C1_RoundTrip ==
    (nEnc = 1 /\ prevSheet = <<>>) =>
        SameKnownFields(encConfig, OverDefaults(parseConfigSheet(sheet)))

Elems(l) == {l[i] : i \in 1..Len(l)}

\* C3: additive merge. Every tab, row-format and override record that the
\* sheet decoded to before an encode, and whose identity is that of no entry
\* of the encoded configuration, is decoded with the same fields afterwards.
C3_AdditiveMerge ==
    nEnc > 0 =>
        LET before == OverDefaults(parseConfigSheet(prevSheet))
            after == OverDefaults(parseConfigSheet(sheet))
        IN /\ \A t \in Elems(before.tabs) :
                  (\A a \in Elems(encConfig.tabs) : a.name # t.name)
                      => TabFields(t) \in Elems(MapTabFields(after.tabs))
           /\ \A r \in Elems(before.rowFormats) :
                  (\A a \in Elems(encConfig.rowFormats) : a.rowType # r.rowType)
                      => r \in Elems(after.rowFormats)
           /\ \A r \in Elems(before.cellConditions) :
                  (\A a \in Elems(encConfig.cellConditions) :
                        <<a.column, a.contains>> # <<r.column, r.contains>>)
                      => r \in Elems(after.cellConditions)

\* C4: idempotent re-export. Encoding the configuration of the last encode
\* once more over the rows that encode produced gives the same rows.
C4_IdempotentReExport ==
    nEnc > 0 => encodeSnapshot(sheet, encConfig) = sheet

\* the anchor key of the group kind a sub-key belongs to, "" for other keys
AnchorOfSubKey(k) ==
    CASE k \in {"tab row types", "tab columns"} -> "tab name"
      [] k \in {"row bold", "row italic", "row bg color", "row font size",
                "row font name"} -> "row name"
      [] k \in {"override bold", "override italic", "override bg color",
                "override font size", "override font name"} -> "override column"
      [] OTHER -> ""

\* the anchor row of the group whose row span holds row i: the nearest
\* earlier row with that anchor key, no section header in between; 0 if none
GroupAnchorOf(s, i, anchor) ==
    LET cands == { j \in 1..(i - 1) :
                     /\ KeyNorm(s[j][1]) = anchor
                     /\ \A m \in (j + 1)..(i - 1) :
                            /\ KeyNorm(s[m][1]) # anchor
                            /\ KeyNorm(s[m][1]) \notin SECTION_HEADERS }
    IN IF cands = {} THEN 0 ELSE CHOOSE j \in cands : TRUE

\* the contains value of the override group anchored at j: that of the
\* group's Override Value row, empty if the group has none
GroupContains(s, j) ==
    LET stop == SpanEnd(s, j + 1, "override column")
        vs == { m \in (j + 1)..(stop - 1) : KeyNorm(s[m][1]) = "override value" }
    IN IF vs = {} THEN <<>> ELSE s[CHOOSE m \in vs : \A n \in vs : m <= n][2]

\* the group anchored at j has the identity of an entry of c
GroupInConfig(s, j, anchor, c) ==
    CASE anchor = "tab name" -> \E a \in Elems(c.tabs) : a.name = s[j][2]
      [] anchor = "row name" -> \E a \in Elems(c.rowFormats) : a.rowType = s[j][2]
      [] anchor = "override column" ->
            \E a \in Elems(c.cellConditions) :
                a.column = s[j][2] /\ a.contains = GroupContains(s, j)

MayChange(s, i, c) ==
    LET k == KeyNorm(s[i][1])
        anchor == AnchorOfSubKey(k)
    IN \/ k \in INDEXED_SINGLETONS
       \/ /\ anchor # ""
          /\ GroupAnchorOf(s, i, anchor) # 0
          /\ GroupInConfig(s, GroupAnchorOf(s, i, anchor), anchor, c)

\* C5: an encode deletes and reorders no row. The rows of the sheet it
\* started from are a prefix of its output, with their keys; a value differs
\* only in a recognized singleton row or in a known sub-key row within the
\* span of a group that has the identity of an entry of the configuration.
C5_EncodeFrame ==
    nEnc > 0 =>
        /\ Len(sheet) >= Len(prevSheet)
        /\ \A i \in 1..Len(prevSheet) :
              /\ sheet[i][1] = prevSheet[i][1]
              /\ sheet[i][2] # prevSheet[i][2] => MayChange(prevSheet, i, encConfig)

(***************************************************************************)
(* Gap segmentation: the row loop of buildWorkbook and buildPdf            *)
(***************************************************************************)
SepEntry == [kind |-> "__sep__"]
RowEntry(row) == [kind |-> "row", row |-> row]

\* one iteration that writes the separator after the row it belongs to
gapLoopStepTrailing(st, row, cfg) ==
    LET active == cfg.timeColumn # <<>> /\ cfg.gapThresholdSeconds > 0
        secs == IF active THEN parseTimeToSeconds(GetCell(row, cfg.timeColumn))
                ELSE <<>>
        sep == /\ active /\ secs # <<>> /\ st.prevSecs # <<>>
               /\ hasGap(st.prevSecs[1], secs[1], cfg.gapThresholdSeconds)
    IN [prevSecs |-> IF active /\ secs # <<>> THEN secs ELSE st.prevSecs,
        outputRows |-> Append(st.outputRows, RowEntry(row))
                       \o (IF sep THEN <<SepEntry>> ELSE <<>>)]

\* one iteration that compares the times whatever the threshold is
gapLoopStepUnguarded(st, row, cfg) ==
    LET secs == IF cfg.timeColumn # <<>>
                THEN parseTimeToSeconds(GetCell(row, cfg.timeColumn)) ELSE <<>>
        sep == /\ secs # <<>> /\ st.prevSecs # <<>>
               /\ secs[1].num * st.prevSecs[1].den - st.prevSecs[1].num * secs[1].den
                    > cfg.gapThresholdSeconds * secs[1].den * st.prevSecs[1].den
    IN [prevSecs |-> IF secs # <<>> THEN secs ELSE st.prevSecs,
        outputRows |-> (IF sep THEN Append(st.outputRows, SepEntry) ELSE st.outputRows)
                       \o <<RowEntry(row)>>]

\* one iteration that takes every row's time, parseable or not, as the new
\* previous reference
gapLoopStepResetting(st, row, cfg) ==
    LET active == cfg.timeColumn # <<>> /\ cfg.gapThresholdSeconds > 0
        secs == IF active THEN parseTimeToSeconds(GetCell(row, cfg.timeColumn))
                ELSE <<>>
        sep == /\ active /\ secs # <<>> /\ st.prevSecs # <<>>
               /\ hasGap(st.prevSecs[1], secs[1], cfg.gapThresholdSeconds)
    IN [prevSecs |-> IF active THEN secs ELSE st.prevSecs,
        outputRows |-> (IF sep THEN Append(st.outputRows, SepEntry) ELSE st.outputRows)
                       \o <<RowEntry(row)>>]

\* one iteration of `for (const row of filtered)`
gapLoopStep(st, row, cfg) ==
    LET active == cfg.timeColumn # <<>> /\ cfg.gapThresholdSeconds > 0
        secs == IF active THEN parseTimeToSeconds(GetCell(row, cfg.timeColumn))
                ELSE <<>>
        sep == /\ active /\ secs # <<>> /\ st.prevSecs # <<>>
               /\ hasGap(st.prevSecs[1], secs[1], cfg.gapThresholdSeconds)
    IN [prevSecs |-> IF active /\ secs # <<>> THEN secs ELSE st.prevSecs,
        outputRows |-> (IF sep THEN Append(st.outputRows, SepEntry) ELSE st.outputRows)
                       \o <<RowEntry(row)>>]

gapLoopInit == [prevSecs |-> <<>>, outputRows |-> <<>>]

\* the whole loop over the first n rows
RECURSIVE gapLoop(_, _, _)
gapLoop(filtered, n, cfg) ==
    IF n = 0 THEN gapLoopInit
    ELSE TheOne({ gapLoopStep(st, filtered[n], cfg) :
                    st \in {gapLoop(filtered, n - 1, cfg)} })

segmentRows(filtered, cfg) == gapLoop(filtered, Len(filtered), cfg).outputRows

(***************************************************************************)
(* Bounded inputs of the gap segmentation                                  *)
(***************************************************************************)
MaxRows == 3

ColTime == <<"M">>

TimeCellPool ==
    { StrCell(<<"0", ":", "0", "5">>),            \* 5 s
      StrCell(<<" ", "1", "0">>),                 \* 10 s, after trimming
      StrCell(<<"1", ":", "0", "0", ":", "0", "0">>),   \* 3600 s
      StrCell(<<"x">>),                           \* does not parse
      StrCell(<<>>),
      NumCell(1, 10000),                          \* serial time 0.0001, 9 s
      NumCell(15, 2) }                            \* 7.5 s

GapRowPool == { (ColTime :> c) : c \in TimeCellPool } \cup { (<<"a">> :> StrCell(<<"1">>)) }

GapThresholds == {0 - 1, 0, 2, 5}

GapConfigs ==
    { [timeColumn |-> tc, gapThresholdSeconds |-> th] :
        tc \in {<<>>, ColTime}, th \in GapThresholds }

(***************************************************************************)
(* Gap specification: the loop runs row by row over a drawn row sequence   *)
(***************************************************************************)
GapInit ==
    /\ rows \in SeqsUpTo(GapRowPool, MaxRows)
    /\ gapCfg \in GapConfigs
    /\ gi = 0 /\ prevSecs = <<>> /\ outputRows = <<>>
    /\ CodecIdle /\ AppIdle /\ CallIdle /\ ExportIdle

GapStep ==
    /\ gi < Len(rows)
    /\ LET st == gapLoopStep([prevSecs |-> prevSecs, outputRows |-> outputRows],
                             rows[gi + 1], gapCfg)
       IN /\ prevSecs' = st.prevSecs
          /\ outputRows' = st.outputRows
    /\ gi' = gi + 1
    /\ UNCHANGED <<rows, gapCfg, codecVars, appVars, callVars, exportVars>>

GapNext == GapStep

SpecGap == GapInit /\ [][GapNext]_vars

(***************************************************************************)
(* Gap claims                                                              *)
(***************************************************************************)
\* the parsed time of the k-th row
TimeOfRow(k) == parseTimeToSeconds(GetCell(rows[k], gapCfg.timeColumn))

\* the nearest row before k whose time parses, 0 if there is none
NearestParseable(k) ==
    LET earlier == {j \in 1..(k - 1) : TimeOfRow(j) # <<>>}
    IN IF earlier = {} THEN 0 ELSE CHOOSE j \in earlier : \A i \in earlier : i <= j

\* b - a > t over rationals a, b and an integer t
DiffExceeds(a, b, t) == b.num * a.den - a.num * b.den > t * a.den * b.den

\* the claimed condition for a separator before row k
SeparatorDue(k) ==
    /\ TimeOfRow(k) # <<>>
    /\ NearestParseable(k) # 0
    /\ DiffExceeds(TimeOfRow(NearestParseable(k))[1], TimeOfRow(k)[1],
                   gapCfg.gapThresholdSeconds)

\* where row k stands in the output if separators stand exactly where due
PositionOf(k) == k + Cardinality({j \in 1..k : SeparatorDue(j)})

\* C9: with a time column set and a threshold > 0, after any number of loop
\* iterations the output holds the processed rows in order, with a separator
\* immediately before row r exactly when r's time parses, an earlier row has a
\* parseable time, and r's time minus the time of the nearest earlier
\* parseable row is strictly greater than the threshold; the loop's previous
\* reference is the time of the nearest parseable row processed.
C9_SeparatorIffGap ==
    (gapCfg.timeColumn # <<>> /\ gapCfg.gapThresholdSeconds > 0) =>
        /\ Len(outputRows) = PositionOf(gi)
        /\ \A k \in 1..gi :
            /\ outputRows[PositionOf(k)] = RowEntry(rows[k])
            /\ SeparatorDue(k) => outputRows[PositionOf(k) - 1] = SepEntry
        /\ prevSecs = IF NearestParseable(gi + 1) = 0 THEN <<>>
                      ELSE TimeOfRow(NearestParseable(gi + 1))

\* C9 witness: the loop has finished a sequence in which one row got a
\* separator and another row, whose time exceeds the previous one by exactly
\* the threshold, got none
C9_Witness ==
    /\ gapCfg.timeColumn # <<>> /\ gapCfg.gapThresholdSeconds > 0
    /\ gi = Len(rows) /\ gi >= 3
    /\ \E k \in 1..gi : SeparatorDue(k) /\ outputRows[PositionOf(k) - 1] = SepEntry
    /\ \E k \in 1..gi :
        /\ TimeOfRow(k) # <<>> /\ NearestParseable(k) # 0
        /\ ~SeparatorDue(k)
        /\ DiffExceeds(TimeOfRow(NearestParseable(k))[1], TimeOfRow(k)[1],
                       gapCfg.gapThresholdSeconds - 1)
        /\ outputRows[PositionOf(k) - 1] # SepEntry

\* C10: with a threshold <= 0, whatever the time column, the output holds no
\* separator and equals the rows processed so far
C10_DisabledAtZero ==
    gapCfg.gapThresholdSeconds <= 0 =>
        outputRows = [k \in 1..gi |-> RowEntry(rows[k])]

\* C10 witness: the loop has finished, with a time column set and a threshold
\* <= 0, a sequence whose parseable times differ by more than zero
C10_Witness ==
    /\ gapCfg.gapThresholdSeconds <= 0 /\ gapCfg.timeColumn # <<>>
    /\ gi = Len(rows) /\ gi >= 2
    /\ \E k \in 1..gi :
        /\ TimeOfRow(k) # <<>> /\ NearestParseable(k) # 0
        /\ DiffExceeds(TimeOfRow(NearestParseable(k))[1], TimeOfRow(k)[1], 0)
    /\ outputRows = [k \in 1..gi |-> RowEntry(rows[k])]

\* an item of an already segmented sequence as the loop reads it: the
\* separator marker has no column, so its time cell is undefined
ItemRow(e) == IF e.kind = "row" THEN e.row ELSE <<>>

\* the segmentation run over the items of an already segmented sequence
Resegment(items, cfg) ==
    LET out == segmentRows([k \in 1..Len(items) |-> ItemRow(items[k])], cfg)
    IN [k \in 1..Len(out) |->
          IF out[k].kind = "row" /\ DOMAIN out[k].row = {} THEN SepEntry ELSE out[k]]

\* items with every separator written twice
RECURSIVE DoubleSeps(_)
DoubleSeps(items) ==
    IF items = <<>> THEN <<>>
    ELSE (IF Head(items).kind = "__sep__" THEN <<SepEntry, SepEntry>>
          ELSE <<Head(items)>>) \o DoubleSeps(Tail(items))

\* C11 as stated: segmentation is idempotent. Running the loop a second time,
\* with the same time column and threshold, over the segmented output
\* (separators read as items without a time value) gives the segmented
\* output again: segment(segment(rows)) = segment(rows).
C11_Idempotent ==
    gi = Len(rows) => Resegment(outputRows, gapCfg) = outputRows

\* C11 amended: the second run keeps every item in order and inserts one
\* further separator next to each separator already present, so that
\* segment(segment(rows)) is segment(rows) with every separator doubled (and
\* equals segment(rows) only when segment(rows) holds no separator).
C11_ResegmentDoubles ==
    gi = Len(rows) => Resegment(outputRows, gapCfg) = DoubleSeps(outputRows)

\* C11 witness: the loop has finished a sequence with a row whose time does
\* not parse, its output holds a separator, and the second run made it longer
C11_Witness ==
    /\ gi = Len(rows) /\ gi >= 3
    /\ \E k \in 1..gi : TimeOfRow(k) = <<>>
    /\ \E k \in 1..Len(outputRows) : outputRows[k] = SepEntry
    /\ Len(Resegment(outputRows, gapCfg)) > Len(outputRows)
    /\ Resegment(outputRows, gapCfg) = DoubleSeps(outputRows)

\* the separators among the items, and the items that are not separators
SeparatorCount(items) == Cardinality({k \in 1..Len(items) : items[k] = SepEntry})
WithoutSeparators(items) == SelectSeq(items, LAMBDA e : e # SepEntry)

\* the processed rows whose time parses
ParseableCount == Cardinality({k \in 1..gi : TimeOfRow(k) # <<>>})

\* the first three parts of C29: without its separators the output is the
\* processed rows in order; the output neither starts nor ends with a
\* separator; no two separators are adjacent
SegmentedShape ==
    /\ WithoutSeparators(outputRows) = [k \in 1..gi |-> RowEntry(rows[k])]
    /\ outputRows # <<>> =>
          outputRows[1] # SepEntry /\ outputRows[Len(outputRows)] # SepEntry
    /\ \A k \in 1..(Len(outputRows) - 1) :
          ~(outputRows[k] = SepEntry /\ outputRows[k + 1] = SepEntry)

\* C29 as stated: after any number of loop iterations, for every input and
\* threshold, the output has the segmented shape and the number of its
\* separators is at most the number of rows with a parseable time minus one.
C29_SegmentedShape ==
    /\ SegmentedShape
    /\ SeparatorCount(outputRows) <= ParseableCount - 1

\* C29 amended: the output has the segmented shape; it holds no separator
\* when fewer than two rows have a parseable time, and otherwise at most
\* that number minus one (an input without a parseable time, the empty input
\* included, gives zero separators, which is not "at most minus one").
C29_ShapeAndCount ==
    /\ SegmentedShape
    /\ SeparatorCount(outputRows) <=
          (IF ParseableCount >= 1 THEN ParseableCount - 1 ELSE 0)

\* C29 witness: the loop has finished a sequence of three rows with
\* parseable times and its output holds two separators, the most allowed
C29_Witness ==
    /\ gi = Len(rows) /\ gi = 3
    /\ ParseableCount = 3
    /\ SeparatorCount(outputRows) = 2
    /\ Len(outputRows) = 5

(***************************************************************************)
(* Workbooks.  A sheet has a name and, by kind, either a grid (the cells   *)
(* of its first row, the row number and the columns of its header row, the *)
(* body entries below it) or the (key, value) rows of a configuration      *)
(* sheet.  A workbook is the sequence of its sheets.                       *)
(***************************************************************************)
StrMaster == <<"M","a","s","t","e","r">>
StrConfiguration == <<"C","o","n","f","i","g","u","r","a","t","i","o","n">>
StrTab == <<"T","a","b">>
MAX_SHEET_NAME == 31

GridSheet(name, kind, tab, top, headerRow, header, body) ==
    [name |-> name, kind |-> kind, tab |-> tab, top |-> top,
     headerRow |-> headerRow, header |-> header, body |-> body, styles |-> <<>>,
     cells |-> <<>>, ySplit |-> 0, rowNums |-> <<>>]

KeyValueSheet(name, cells) ==
    [name |-> name, kind |-> "config", tab |-> 0, top |-> <<>>,
     headerRow |-> 0, header |-> <<>>, body |-> <<>>, styles |-> <<>>, cells |-> cells,
     ySplit |-> 0, rowNums |-> <<>>]

\* String(n) for the number num/den, den a power of ten
RECURSIVE StripTrailingZeros(_)
StripTrailingZeros(s) ==
    IF s # <<>> /\ s[Len(s)] = "0" THEN StripTrailingZeros(SubSeq(s, 1, Len(s) - 1))
    ELSE s

RECURSIVE PadStartZeros(_, _)
PadStartZeros(s, k) == IF Len(s) < k THEN PadStartZeros(<<"0">> \o s, k) ELSE s

NumToStr(num, den) ==
    LET mag == IF num < 0 THEN 0 - num ELSE num
        frac == StripTrailingZeros(PadStartZeros(NatToStr(mag % den),
                                                 Len(NatToStr(den)) - 1))
    IN (IF num < 0 THEN <<"-">> ELSE <<>>) \o NatToStr(mag \div den)
       \o (IF frac = <<>> THEN <<>> ELSE <<".">> \o frac)

\* String(value ?? "")
CellToString(cell) ==
    IF cell.t = "str" THEN cell.s
    ELSE IF cell.t = "num" THEN NumToStr(cell.num, cell.den)
    ELSE <<>>

\* the filter comparing the type value as it stands, blanks included
RECURSIVE FilterByTypeUntrimmed(_, _, _)
FilterByTypeUntrimmed(rawRows, rowTypes, typeColumn) ==
    IF rawRows = <<>> THEN <<>>
    ELSE (IF Includes(rowTypes, CellToString(GetCell(Head(rawRows), typeColumn)))
          THEN <<Head(rawRows)>> ELSE <<>>)
         \o FilterByTypeUntrimmed(Tail(rawRows), rowTypes, typeColumn)

RECURSIVE FilterByType(_, _, _)
FilterByType(rawRows, rowTypes, typeColumn) ==
    IF rawRows = <<>> THEN <<>>
    ELSE (IF Includes(rowTypes, Trim(CellToString(GetCell(Head(rawRows), typeColumn))))
          THEN <<Head(rawRows)>> ELSE <<>>)
         \o FilterByType(Tail(rawRows), rowTypes, typeColumn)

\* step 1 of the tab loop
filterRows(rawRows, tab, typeColumn) ==
    IF Len(tab.rowTypes) > 0 /\ typeColumn # <<>>
    THEN FilterByType(rawRows, tab.rowTypes, typeColumn)
    ELSE rawRows

\* applyTitleBlock: its rowCount, and the texts it puts into row 1
titleBlockRowCount(tb) == (IF Len(Trim(tb.note2)) > 0 THEN 5 ELSE 4) + 1

StrLightingDesigner == <<"L","D",":">>       \* "Lighting Designer:", abbreviated

titleBlockTopRow(tb) ==
    LET parts == FilterNonEmpty(<<Trim(tb.companyName), Trim(tb.showName)>>)
        fullTitle == IF Len(parts) = 2 THEN parts[1] \o <<"'", "s", " ">> \o parts[2]
                     ELSE IF Len(parts) = 1 THEN parts[1] ELSE <<>>
    IN FilterNonEmpty(<<StrLightingDesigner \o tb.lightingDesigner, fullTitle>>)

\* Math.max(1, Math.floor(n * pct / 100)) for pct 22 and 20: over the column
\* counts modelled the double product n * 0.22 (n * 0.20) has the floor of
\* the exact one
regionCols(n, pct) == IF (n * pct) \div 100 > 1 THEN (n * pct) \div 100 ELSE 1

\* the layout with the left region sized like the right one
applyTitleBlockEqualSides(tb, colCount) ==
    LET lCols == regionCols(colCount, 20)
        rCols == regionCols(colCount, 20)
        dataRows == IF Len(Trim(tb.note2)) > 0 THEN 5 ELSE 4
    IN [lCols |-> lCols, rCols |-> rCols, mStart |-> lCols + 1,
        mEnd |-> colCount - rCols, rStart |-> colCount - rCols + 1,
        dataRows |-> dataRows,
        merges |-> {[top |-> 1, left |-> 1, bottom |-> dataRows, right |-> lCols]}
                     \cup {[top |-> 1, left |-> colCount - rCols + 1, bottom |-> dataRows,
                           right |-> colCount]}
                     \cup {[top |-> r, left |-> lCols + 1, bottom |-> r,
                            right |-> colCount - rCols] :
                              r \in {q \in 1..dataRows : colCount - rCols >= lCols + 1}},
        midCells |-> {[row |-> r, col |-> lCols + 1] : r \in 1..dataRows},
        threw |-> colCount - rCols + 1 <= lCols,
        rowCount |-> dataRows + 1]

\* applyTitleBlock: the column split, the content rows, the cell ranges it
\* merges (left block, right block, one range per content row in the middle
\* when the middle has a column), the cells midCell writes the middle texts
\* to (row r, column mStart, merged or not) and the rowCount it returns.
\* Worksheet.mergeCells rejects a range that intersects a merged one with an
\* exception: threw tells that the right block meets the left one
applyTitleBlock(tb, colCount) ==
    LET lCols == regionCols(colCount, 22)
        rCols == regionCols(colCount, 20)
        mStart == lCols + 1
        mEnd == colCount - rCols
        rStart == colCount - rCols + 1
        dataRows == IF Len(Trim(tb.note2)) > 0 THEN 5 ELSE 4
    IN [lCols |-> lCols, rCols |-> rCols, mStart |-> mStart, mEnd |-> mEnd,
        rStart |-> rStart, dataRows |-> dataRows,
        merges |-> {[top |-> 1, left |-> 1, bottom |-> dataRows, right |-> lCols]}
                     \cup (IF rStart <= colCount
                           THEN {[top |-> 1, left |-> rStart, bottom |-> dataRows,
                                  right |-> colCount]}
                           ELSE {})
                     \cup {[top |-> r, left |-> mStart, bottom |-> r, right |-> mEnd] :
                              r \in {q \in 1..dataRows : mEnd >= mStart}},
        midCells |-> {[row |-> r, col |-> mStart] : r \in 1..dataRows},
        threw |-> rStart <= colCount /\ rStart <= lCols,
        rowCount |-> dataRows + 1]

\* name.replace(/[/\\?*[\]:]/g, "-").substring(0, 31)
sanitizeName(name) ==
    LET replaced == [i \in 1..Len(name) |->
                        IF name[i] \in {"/", "\\", "?", "*", "[", "]", ":"}
                        THEN "-" ELSE name[i]]
    IN SubSeq(replaced, 1,
              IF Len(replaced) < MAX_SHEET_NAME THEN Len(replaced) ELSE MAX_SHEET_NAME)

\* sanitizeName(name) || `Tab${ordinal}`
safeName(name, ordinal) ==
    IF sanitizeName(name) = <<>> THEN StrTab \o NatToStr(ordinal)
    ELSE sanitizeName(name)

EmptyWorkbook == [status |-> "ok", sheets |-> <<>>]
FailedBuild == [status |-> "error", sheets |-> <<>>]

\* Workbook.addWorksheet: the library rejects a name another sheet already
\* has, compared without regard to case; the exception ends the build
addWorksheet(wb, sh) ==
    IF wb.status # "ok" THEN wb
    ELSE IF \E i \in 1..Len(wb.sheets) : ToLower(wb.sheets[i].name) = ToLower(sh.name)
    THEN FailedBuild
    ELSE [wb EXCEPT !.sheets = Append(@, sh)]

_addPlainMaster(wb, rawRows, allColumns) ==
    addWorksheet(wb, GridSheet(StrMaster, "master", 0, allColumns, 1, allColumns,
                               [i \in 1..Len(rawRows) |-> RowEntry(rawRows[i])]))

\* the master branch: the first sheet of the uploaded workbook under the name
\* Master, every other sheet removed; the plain master when there are too few
\* bytes or the library fails on the file
masterSheet(rawRows, allColumns, cfg, rawBuffer) ==
    IF ~cfg.includeMasterSheet THEN EmptyWorkbook
    ELSE IF rawBuffer.byteLength > 100
    THEN IF rawBuffer.loadable
         THEN [status |-> "ok",
               sheets |-> IF Len(rawBuffer.sheets) > 0
                          THEN <<[rawBuffer.sheets[1] EXCEPT !.name = StrMaster]>>
                          ELSE <<>>]
         ELSE _addPlainMaster(EmptyWorkbook, rawRows, allColumns)
    ELSE _addPlainMaster(EmptyWorkbook, rawRows, allColumns)

(***************************************************************************)
(* resolveStyle.  A style is the part of the ExcelJS style that the rules  *)
(* decide: the fill colour (empty: no fill), bold, italic, underline, the  *)
(* font size and the font name.  The result is [threw, style].             *)
(***************************************************************************)
DEFAULT_FONT_NAME == DEFAULT_FONT

StyleOf(rule) ==
    [bgColor |-> rule.bgColor, bold |-> rule.bold, italic |-> rule.italic,
     underline |-> rule.underline, fontSize |-> rule.fontSize,
     fontName |-> rule.fontName]

\* the values of `rRule?.x ?? ...` when no rule is found
BaseStyle ==
    [bgColor |-> <<>>, bold |-> FALSE, italic |-> FALSE, underline |-> FALSE,
     fontSize |-> DEFAULT_FONT_SIZE, fontName |-> DEFAULT_FONT_NAME]

\* rowFormats.find((r) => r.rowType === rowTypeVal): its position, else 0
findRowFormat(rowFormats, rowTypeVal) ==
    LET hits == {i \in 1..Len(rowFormats) : rowFormats[i].rowType = rowTypeVal}
    IN IF hits = {} THEN 0 ELSE CHOOSE i \in hits : \A j \in hits : i <= j

\* the callback of cellConditions.find on the rule c: "match", "no", or
\* "throw" when globMatch is called and throws
conditionOutcome(c, row) ==
    IF c.contains = <<>> THEN "no"
    ELSE IF c.column # <<>>
    THEN IF globMatch(c.contains, CellToString(GetCell(row, c.column))).threw
         THEN "throw"
         ELSE IF globMatch(c.contains, CellToString(GetCell(row, c.column))).result
         THEN "match" ELSE "no"
    ELSE IF DOMAIN row = {} THEN "no"
    ELSE IF globMatch(c.contains, <<>>).threw THEN "throw"
    ELSE IF \E k \in DOMAIN row : globMatch(c.contains, CellToString(row[k])).result
    THEN "match" ELSE "no"

\* cellConditions.find: [threw, index], index 0 when no rule is found
findCondition(cellConditions, row) ==
    LET hits == {i \in 1..Len(cellConditions) :
                    conditionOutcome(cellConditions[i], row) # "no"}
    IN IF hits = {} THEN [threw |-> FALSE, index |-> 0]
       ELSE TheOne({ IF conditionOutcome(cellConditions[first], row) = "throw"
                     THEN [threw |-> TRUE, index |-> 0]
                     ELSE [threw |-> FALSE, index |-> first] :
                       first \in {CHOOSE i \in hits : \A j \in hits : i <= j} })

\* `if (cRule.x) x = cRule.x` for each field
applyOverride(base, cRule) ==
    [bgColor |-> IF cRule.bgColor # <<>> THEN cRule.bgColor ELSE base.bgColor,
     bold |-> IF cRule.bold THEN cRule.bold ELSE base.bold,
     italic |-> IF cRule.italic THEN cRule.italic ELSE base.italic,
     underline |-> IF cRule.underline THEN cRule.underline ELSE base.underline,
     fontSize |-> IF cRule.fontSize # 0 THEN cRule.fontSize ELSE base.fontSize,
     fontName |-> IF cRule.fontName # <<>> THEN cRule.fontName ELSE base.fontName]

\* the resolver with the winning override taken as the whole style
resolveStyleReplacing(rowTypeVal, row, rowFormats, cellConditions) ==
    LET ri == findRowFormat(rowFormats, rowTypeVal)
        found == findCondition(cellConditions, row)
    IN IF found.threw THEN [threw |-> TRUE]
       ELSE IF found.index # 0
       THEN [threw |-> FALSE, style |-> StyleOf(cellConditions[found.index])]
       ELSE [threw |-> FALSE,
             style |-> IF ri = 0 THEN BaseStyle ELSE StyleOf(rowFormats[ri])]

resolveStyle(rowTypeVal, row, rowFormats, cellConditions) ==
    LET ri == findRowFormat(rowFormats, rowTypeVal)
        base == IF ri = 0 THEN BaseStyle ELSE StyleOf(rowFormats[ri])
        found == findCondition(cellConditions, row)
    IN IF found.threw THEN [threw |-> TRUE]
       ELSE IF found.index = 0 THEN [threw |-> FALSE, style |-> base]
       ELSE [threw |-> FALSE,
             style |-> applyOverride(base, cellConditions[found.index])]

\* typeColumn ? String(row[typeColumn] ?? "").trim() : ""
rowTypeValOf(row, typeColumn) ==
    IF typeColumn # <<>> THEN Trim(CellToString(GetCell(row, typeColumn))) ELSE <<>>

\* step 7 of the tab loop: for each entry of outputRows the style given to
\* each of its cells (none for a separator)
dataRowStyles(outRows, columns, cfg) ==
    [k \in 1..Len(outRows) |->
        IF outRows[k].kind = "row"
        THEN [col \in Elems(columns) |->
                 resolveStyle(rowTypeValOf(outRows[k].row, cfg.typeColumn),
                              outRows[k].row, cfg.rowFormats, cfg.cellConditions)]
        ELSE <<>>]

\* the row cursor of step 7 with a separator left on the row of the item
\* that follows it
RECURSIVE writeItemsSharingRows(_, _)
writeItemsSharingRows(outRows, currentRow) ==
    IF outRows = <<>> THEN <<>>
    ELSE <<currentRow>> \o writeItemsSharingRows(Tail(outRows),
                               IF Head(outRows) = SepEntry THEN currentRow
                               ELSE currentRow + 1)

\* step 7: the row number each item of outputRows is written at. Both the
\* separator branch and the data-row branch take dataRowNum = currentRow and
\* end with currentRow++
RECURSIVE writeItems(_, _)
writeItems(outRows, currentRow) ==
    IF outRows = <<>> THEN <<>>
    ELSE <<currentRow>> \o writeItems(Tail(outRows), currentRow + 1)

\* steps 3 to 7 for the tab at position i, given its outputRows; an exception
\* of applyTitleBlock or of resolveStyle ends the build. The sheet records the header row number,
\* the split of the frozen pane and the row number of each item
tabSheet(wb, cfg, i, outRows) ==
    LET tab == cfg.tabs[i]
        headerRowNum == IF cfg.titleBlock.enabled
                        THEN 1 + titleBlockRowCount(cfg.titleBlock) ELSE 1
        top == IF cfg.titleBlock.enabled THEN titleBlockTopRow(cfg.titleBlock)
               ELSE tab.columns
        added == addWorksheet(wb, GridSheet(safeName(tab.name, i), "tab", i, top,
                                            headerRowNum, tab.columns, outRows))
    IN IF added.status # "ok" THEN added
       ELSE IF /\ cfg.titleBlock.enabled
               /\ applyTitleBlock(cfg.titleBlock, Len(tab.columns)).threw
       THEN FailedBuild
       ELSE IF \E k \in 1..Len(outRows) :
                  /\ outRows[k].kind = "row"
                  /\ findCondition(cfg.cellConditions, outRows[k].row).threw
       THEN FailedBuild
       ELSE [added EXCEPT !.sheets[Len(added.sheets)].styles =
                              dataRowStyles(outRows, tab.columns, cfg),
                          !.sheets[Len(added.sheets)].ySplit = headerRowNum,
                          !.sheets[Len(added.sheets)].rowNums =
                              writeItems(outRows, headerRowNum + 1)]

\* one iteration of `for (const tab of tabs)`, for the tab at position i
addTabSheet(wb, rawRows, cfg, i) ==
    IF Len(cfg.tabs[i].columns) = 0 THEN wb
    ELSE TheOne({ tabSheet(wb, cfg, i, outRows) :
                    outRows \in { segmentRows(
                        filterRows(rawRows, cfg.tabs[i], cfg.typeColumn),
                        [timeColumn |-> cfg.timeColumn,
                         gapThresholdSeconds |-> cfg.gapThresholdSeconds]) } })

RECURSIVE addTabSheets(_, _, _, _)
addTabSheets(wb, rawRows, cfg, n) ==
    IF n = 0 THEN wb
    ELSE TheOne({ addTabSheet(done, rawRows, cfg, n) :
                    done \in {addTabSheets(wb, rawRows, cfg, n - 1)} })

\* a row of a grid sheet read as a (key, value) pair: the column names and
\* cell texts modelled are no keys of the configuration sheet
ForeignRow == <<"(cells)", <<>> >>

\* worksheet.eachRow: the rows that hold a value
eachRow(sh) ==
    IF sh.kind = "config"
    THEN SelectSeq(sh.cells, LAMBDA r : ~(r[1] = "" /\ r[2] = <<>>))
    ELSE LET titleRows == IF sh.headerRow > 1 THEN sh.headerRow - 2 ELSE 0
             dataRows == Cardinality({i \in 1..Len(sh.body) : sh.body[i].kind = "row"})
         IN [i \in 1..(titleRows + 1 + dataRows) |-> ForeignRow]

\* wb.getWorksheet(name): position of the sheet of exactly that name, else 0
getWorksheet(wb, name) ==
    IF \E i \in 1..Len(wb.sheets) : wb.sheets[i].name = name
    THEN CHOOSE i \in 1..Len(wb.sheets) : wb.sheets[i].name = name
    ELSE 0

removeWorksheet(wb, i) ==
    [wb EXCEPT !.sheets = SubSeq(@, 1, i - 1) \o SubSeq(@, i + 1, Len(@))]

\* writeConfigSheet on the workbook: read the sheet named Configuration if the
\* workbook being built has one, remove it, rebuild the rows, add the sheet
writeConfigSheet(wb, cfg) ==
    IF wb.status # "ok" THEN wb
    ELSE LET existing == getWorksheet(wb, StrConfiguration)
             snapshot == IF existing # 0 THEN eachRow(wb.sheets[existing]) ELSE <<>>
             rest == IF existing # 0 THEN removeWorksheet(wb, existing) ELSE wb
         IN TheOne({ addWorksheet(rest, KeyValueSheet(StrConfiguration, written)) :
                       written \in {encodeSnapshot(snapshot, cfg)} })

buildWorkbook(rawRows, allColumns, cfg, rawBuffer) ==
    TheOne({ writeConfigSheet(withTabs, cfg) :
               withTabs \in { addTabSheets(master, rawRows, cfg, Len(cfg.tabs)) :
                   master \in {masterSheet(rawRows, allColumns, cfg, rawBuffer)} } })

(***************************************************************************)
(* Upload step: parseFile and handleParsed                                 *)
(***************************************************************************)
\* n.trim().toLowerCase() === "configuration"
IsConfigurationName(n) == ToLower(Trim(n)) = ToLower(StrConfiguration)

\* Array.prototype.find over the sheet names: the first position, 0 if none
FirstSheet(sheets, wantConfiguration) ==
    LET hits == {i \in 1..Len(sheets) :
                    IsConfigurationName(sheets[i].name) = wantConfiguration}
    IN IF hits = {} THEN 0 ELSE CHOOSE i \in hits : \A j \in hits : i <= j

\* out[k.trim()] = v for every column k of the row
ReKey(row) ==
    [c \in {Trim(k) : k \in DOMAIN row} |->
        row[CHOOSE k \in DOMAIN row : Trim(k) = c]]

\* sheet_to_json: the rows of a sheet below its first row, blank rows left out
SheetToJson(sh) ==
    LET picked == SelectSeq(sh.body, LAMBDA e : e.kind = "row")
    IN [i \in 1..Len(picked) |-> picked[i].row]

\* sheet_to_json with header: 1 on the sheet found by the configuration name
SheetToKeyValues(sh) == IF sh.kind = "config" THEN sh.cells ELSE eachRow(sh)

\* the trimmed header cells of the first sheet that is no configuration sheet
headerRow(file) ==
    LET dataAt == FirstSheet(file.sheets, FALSE)
    IN IF dataAt # 0
       THEN [i \in 1..Len(file.sheets[dataAt].top) |-> Trim(file.sheets[dataAt].top[i])]
       ELSE <<>>

\* parseFile: error is "" when the file parses
parseFile(file) ==
    LET configAt == FirstSheet(file.sheets, TRUE)
        dataAt == FirstSheet(file.sheets, FALSE)
        saved == IF configAt # 0
                 THEN parseConfigSheet(SheetToKeyValues(file.sheets[configAt]))
                 ELSE <<>>
        rawRows == IF dataAt # 0 THEN SheetToJson(file.sheets[dataAt]) ELSE <<>>
    IN [error |-> IF dataAt = 0 THEN "No data sheet found in the file."
                  ELSE IF Len(rawRows) = 0
                  THEN "The first data sheet appears to be empty."
                  ELSE "",
        rows |-> [i \in 1..Len(rawRows) |-> ReKey(rawRows[i])],
        columns |-> headerRow(file),
        rawBuffer |-> file,
        savedConfig |-> saved]

\* the text sub stands in s at position i
TextAt(s, i, sub) ==
    i >= 1 /\ i + Len(sub) - 1 <= Len(s) /\ SubSeq(s, i, i + Len(sub) - 1) = sub

\* sub occurs in s
ContainsText(s, sub) == \E i \in 1..Len(s) : TextAt(s, i, sub)

\* /type|category|cue.?type/i.test(c)
LooksLikeTypeColumn(c) ==
    LET l == ToLower(c)
    IN \/ ContainsText(l, <<"t","y","p","e">>)
       \/ ContainsText(l, <<"c","a","t","e","g","o","r","y">>)
       \/ \E i \in 1..Len(l) :
            /\ TextAt(l, i, <<"c","u","e">>)
            /\ \/ TextAt(l, i + 3, <<"t","y","p","e">>)
               \/ TextAt(l, i + 4, <<"t","y","p","e">>)

\* handleParsed: the configuration the configure step is entered with
handleParsed(parsedRows, columns, fileName, rawBuffer) ==
    LET hits == {i \in 1..Len(columns) : LooksLikeTypeColumn(columns[i])}
    IN [defaultConfig EXCEPT
          !.typeColumn = IF hits = {} THEN <<>>
                         ELSE columns[CHOOSE i \in hits : \A j \in hits : i <= j]]

(***************************************************************************)
(* Configure step: patch, the row-format auto-sync, canExport              *)
(***************************************************************************)
\* code-unit order of the characters used
Alphabet == <<" ">> \o Digits \o Upper \o Lower
CharRank(c) ==
    IF \E i \in 1..Len(Alphabet) : Alphabet[i] = c
    THEN CHOOSE i \in 1..Len(Alphabet) : Alphabet[i] = c ELSE 0

RECURSIVE TextLess(_, _)
TextLess(a, b) ==
    IF a = <<>> THEN b # <<>>
    ELSE IF b = <<>> THEN FALSE
    ELSE IF Head(a) = Head(b) THEN TextLess(Tail(a), Tail(b))
    ELSE CharRank(Head(a)) < CharRank(Head(b))

\* Array.from(set).sort()
RECURSIVE SortTexts(_)
SortTexts(S) ==
    IF S = {} THEN <<>>
    ELSE LET m == CHOOSE x \in S : \A y \in S \ {x} : TextLess(x, y)
         IN <<m>> \o SortTexts(S \ {m})

usedRowTypes(cfg) ==
    SortTexts(UNION {Elems(cfg.tabs[i].rowTypes) : i \in 1..Len(cfg.tabs)})

\* the auto-sync: every used row type without a format entry gets a default one
autoSyncRowFormats(cfg) ==
    LET missing == SelectSeq(usedRowTypes(cfg),
                             LAMBDA rt : \A i \in 1..Len(cfg.rowFormats) :
                                            cfg.rowFormats[i].rowType # rt)
    IN [cfg EXCEPT !.rowFormats =
            @ \o [i \in 1..Len(missing) |-> makeRowFormatRule(missing[i])]]

canExport(cfg) ==
    \/ /\ cfg.typeColumn # <<>>
       /\ Len(cfg.tabs) > 0
       /\ \A i \in 1..Len(cfg.tabs) : Len(cfg.tabs[i].columns) > 0
    \/ cfg.includeMasterSheet

(***************************************************************************)
(* Bounded inputs of the application                                       *)
(***************************************************************************)
MaxAppTabs == 2

ColType == <<"T","y","p","e">>

\* a name one character longer than a sheet name may be, ending in c
LongName(c) == [i \in 1..(MAX_SHEET_NAME + 1) |-> IF i > MAX_SHEET_NAME THEN c ELSE "n"]

AppTab(id, name, rowTypes, columns) ==
    [id |-> id, name |-> name, rowTypes |-> rowTypes, columns |-> columns]

AppTabPool ==
    { AppTab("t1", <<"X">>, << <<"A">> >>, << <<"a">>, ColTime >>),
      AppTab("t2", <<"X">>, <<>>, << <<"a">> >>),
      AppTab("t3", <<>>, <<>>, << <<"a">> >>),
      AppTab("t4", StrConfiguration, << <<"B">>, <<"A">> >>, << <<"a">> >>),
      AppTab("t5", <<"Y">>, <<>>, <<>>),
      AppTab("t6", <<"a","/","b">>, <<>>, << <<"a">> >>),
      AppTab("t7", <<"a","-","b">>, <<>>, << <<"a">> >>),
      AppTab("t8", LongName("1"), <<>>, << <<"a">> >>),
      AppTab("t9", LongName("2"), <<>>, << <<"a">> >>) }

DataRow(type, a, time) ==
    (ColType :> StrCell(type)) @@ (<<"a">> :> StrCell(a)) @@ (ColTime :> StrCell(time))

SampleRows ==
    << DataRow(<<"A">>, <<"1">>, <<"0",":","0","5">>),
       DataRow(<<"B", " ">>, <<"2">>, <<"0",":","0","6">>),
       DataRow(<<"A">>, <<"3">>, <<"0",":","1","0">>) >>

SampleColumns == <<ColType, <<"a">>, ColTime>>

DataSheet(name, columns, sampleRows) ==
    GridSheet(name, "data", 0, columns, 1, columns,
              [i \in 1..Len(sampleRows) |-> RowEntry(sampleRows[i])])

\* a plain cue list
PlainFile ==
    [sheets |-> <<DataSheet(<<"S","1">>, SampleColumns, SampleRows)>>,
     byteLength |-> 5000, loadable |-> TRUE]

\* a cue list without a type column that the workbook library cannot load
UnloadableFile ==
    [sheets |-> <<DataSheet(<<"S","1">>, <<<<"a", " ">>, ColTime>>,
                            << (<<"a", " ">> :> StrCell(<<"1">>))
                                 @@ (ColTime :> StrCell(<<"0",":","0","5">>)) >>)>>,
     byteLength |-> 5000, loadable |-> FALSE]

\* the configuration of an earlier session
EarlierConfig ==
    [defaultConfig EXCEPT
        !.typeColumn = ColType, !.timeColumn = ColTime, !.gapThresholdSeconds = 4,
        !.tabs = <<AppTab("t0", <<"Z">>, << <<"A">> >>, << <<"a">> >>)>>,
        !.rowFormats = <<makeRowFormatRule(<<"A">>)>>]

\* a file this program exported earlier from PlainFile
ExportedFile ==
    [sheets |-> buildWorkbook(SampleRows, SampleColumns, EarlierConfig, PlainFile).sheets,
     byteLength |-> 9000, loadable |-> TRUE]

\* a cue list with a hand-written configuration sheet in the legacy spelling
LegacyFile ==
    [sheets |-> <<DataSheet(<<"S","1">>, SampleColumns, SampleRows),
                  KeyValueSheet(<<"c","o","n","f","i","g","u","r","a","t","i","o","n"," ">>,
                                SheetLegacy)>>,
     byteLength |-> 6000, loadable |-> TRUE]

\* a file holding nothing but a configuration sheet
ConfigOnlyFile ==
    [sheets |-> <<KeyValueSheet(StrConfiguration, SheetLegacy)>>,
     byteLength |-> 3000, loadable |-> TRUE]

Files == {PlainFile, UnloadableFile, ExportedFile, LegacyFile, ConfigOnlyFile}

\* what the column selects offer, narrowed to no column and the column col
ColumnChoices(col) == {<<>>} \cup (Elems(headerRow(upload)) \cap {col})

(***************************************************************************)
(* Application specification                                               *)
(***************************************************************************)
AppInit ==
    /\ step = "upload"
    /\ config = defaultConfig
    /\ upload = NoUpload
    /\ savedConfig = <<>>
    /\ workbook = NoWorkbook
    /\ CodecIdle /\ GapIdle /\ CallIdle /\ ExportIdle

\* UploadStep.onDrop: parseFile, then onParsed with what it returned
Upload(file) ==
    /\ step = "upload"
    /\ \E parsed \in {parseFile(file)} :
          /\ parsed.error = ""
          /\ step' = "configure"
          /\ upload' = parsed.rawBuffer
          /\ savedConfig' = parsed.savedConfig
          /\ config' = handleParsed(parsed.rows, parsed.columns, "file", parsed.rawBuffer)
    /\ workbook' = NoWorkbook
    /\ UNCHANGED <<codecVars, gapVars, callVars, exportVars>>

\* handleBack: the upload step is rendered in place of ConfigureStep, whose
\* instance is unmounted. Its state is dropped (the next instance starts from
\* the useState initial values) and the exports it started, still running,
\* no longer belong to a mounted instance.
Back ==
    /\ step = "configure"
    /\ step' = "upload"
    /\ exporting' = FALSE /\ exportingPdf' = FALSE /\ exportError' = NoError
    /\ inFlight' = [k \in 1..Len(inFlight) |-> [inFlight[k] EXCEPT !.live = FALSE]]
    /\ UNCHANGED <<config, upload, savedConfig, workbook, codecVars, gapVars, callVars>>

\* patch({ tabs }) from the tab editor, followed by the auto-sync
PatchTabs(tabs) ==
    /\ step = "configure"
    /\ config' = autoSyncRowFormats([config EXCEPT !.tabs = tabs])
    /\ workbook' = NoWorkbook
    /\ UNCHANGED <<step, upload, savedConfig, codecVars, gapVars, callVars, exportVars>>

\* patch({ includeMasterSheet })
PatchIncludeMasterSheet(b) ==
    /\ step = "configure"
    /\ config' = [config EXCEPT !.includeMasterSheet = b]
    /\ workbook' = NoWorkbook
    /\ UNCHANGED <<step, upload, savedConfig, codecVars, gapVars, callVars, exportVars>>

\* onChange({ typeColumn }) and onChange({ timeColumn }) of the column mapping
PatchColumn(field, col) ==
    /\ step = "configure"
    /\ config' = [config EXCEPT ![field] = col]
    /\ workbook' = NoWorkbook
    /\ UNCHANGED <<step, upload, savedConfig, codecVars, gapVars, callVars, exportVars>>

\* handleExport: buildWorkbook on the parsed rows and the uploaded bytes
Export ==
    /\ step = "configure"
    /\ canExport(config)
    /\ \E parsed \in {parseFile(upload)} :
          workbook' = buildWorkbook(parsed.rows, parsed.columns, config, upload)
    /\ UNCHANGED <<step, config, upload, savedConfig, codecVars, gapVars, callVars, exportVars>>

AppNext ==
    \/ \E f \in Files : Upload(f)
    \/ Back
    \/ \E tabs \in SeqsUpTo(AppTabPool, MaxAppTabs) : PatchTabs(tabs)
    \/ \E b \in BOOLEAN : PatchIncludeMasterSheet(b)
    \/ \E col \in ColumnChoices(ColType) : PatchColumn("typeColumn", col)
    \/ \E col \in ColumnChoices(ColTime) : PatchColumn("timeColumn", col)
    \/ Export

SpecApp == AppInit /\ [][AppNext]_vars

(***************************************************************************)
(* Application claims                                                      *)
(***************************************************************************)
\* C2: re-upload restores the configuration. When an upload whose file holds
\* a Configuration sheet that decodes to a configuration enters the configure
\* step, every recognized field of the state's config has the decoded value.
C2_ReuploadRestores ==
    [][(step = "upload" /\ step' = "configure" /\ DOMAIN savedConfig' # {})
          => SameKnownFields(OverDefaults(savedConfig'), config')]_vars

\* C6: the snapshot comes from the uploaded file. After an export of a file
\* that holds a sheet named Configuration, every non-blank row of that sheet
\* which the current configuration does not reference is a row of the
\* exported workbook's Configuration sheet.
C6_SnapshotFromUpload ==
    (workbook.status = "ok" /\ getWorksheet(upload, StrConfiguration) # 0) =>
        LET up == upload.sheets[getWorksheet(upload, StrConfiguration)].cells
            out == workbook.sheets[Len(workbook.sheets)].cells
        IN \A i \in 1..Len(up) :
              (up[i][1] # "" /\ ~MayChange(up, i, config)) => up[i] \in Elems(out)

\* the positions of the tabs that have columns, in tabs order
TabsWithColumns(cfg) ==
    SelectSeq([i \in 1..Len(cfg.tabs) |-> i], LAMBDA i : Len(cfg.tabs[i].columns) > 0)

\* C7: sheet order. A built workbook holds the master sheet if
\* includeMasterSheet is set, then one sheet for each tab with columns, in
\* tabs order, then the Configuration sheet, and nothing else.
C7_SheetOrder ==
    workbook.status = "ok" =>
        LET m == IF config.includeMasterSheet THEN 1 ELSE 0
            withCols == TabsWithColumns(config)
            sheets == workbook.sheets
        IN /\ Len(sheets) = m + Len(withCols) + 1
           /\ m = 1 => (sheets[1].name = StrMaster /\ sheets[1].kind \in {"data", "master"})
           /\ \A k \in 1..Len(withCols) :
                 sheets[m + k].kind = "tab" /\ sheets[m + k].tab = withCols[k]
           /\ sheets[Len(sheets)].kind = "config"
           /\ sheets[Len(sheets)].name = StrConfiguration

\* two tabs with columns share a sanitized name, or one sanitizes to nothing
TabNamesCollide(cfg) ==
    LET withCols == Elems(TabsWithColumns(cfg))
    IN \/ \E i, j \in withCols :
            i # j /\ sanitizeName(cfg.tabs[i].name) = sanitizeName(cfg.tabs[j].name)
       \/ \E i \in withCols : sanitizeName(cfg.tabs[i].name) = <<>>

\* C8: tab-name collisions are not fatal. An export of a configuration whose
\* tab names collide or sanitize to nothing does not fail; every tab with
\* columns has its own sheet and all sheet names are pairwise distinct.
C8_CollisionsNonFatal ==
    (workbook.status # "none" /\ TabNamesCollide(config)) =>
        /\ workbook.status = "ok"
        /\ \A i \in Elems(TabsWithColumns(config)) :
              \E k \in 1..Len(workbook.sheets) :
                  workbook.sheets[k].kind = "tab" /\ workbook.sheets[k].tab = i
        /\ \A k, l \in 1..Len(workbook.sheets) :
              k # l => workbook.sheets[k].name # workbook.sheets[l].name

(***************************************************************************)
(* Calls of single functions: a call is drawn, then the function runs on   *)
(* it and ret holds what it returned                                       *)
(***************************************************************************)
OthersIdle == CodecIdle /\ AppIdle /\ GapIdle /\ ExportIdle

(***************************************************************************)
(* parseTimeToSeconds on drawn cell values                                 *)
(***************************************************************************)
MaxTimeLen == 5

TimeChars == {"1", "3", ":", ".", "-", " ", "x"}

StrTimeHMS == <<"2", ":", "1", "5", ":", "3", "0">>
StrTimeMS == <<"1", ":", "3", "0">>
StrAbc == <<"a", "b", "c">>

TimeTexts ==
    SeqsUpTo(TimeChars, MaxTimeLen)
        \cup { StrTimeHMS, StrTimeMS, StrAbc,
               <<"1", "2", "3", ":", "4", "5">>,                  \* three-digit minutes
               <<"0", ":", "0", "7", ":", "0", "0", "9">>,        \* three-digit seconds
               <<" ", "1", "0", ":", "0", "0", ":", "5", " ">>,
               <<"0", ".", "0", "0", "0", "1">>,
               <<"7", ".", "5", "0">> }

TimeNumbers ==
    { NumCell(n, d) : n \in (0 - 2)..12, d \in {1, 2, 10} }
        \cup { NumCell(1, 10000), NumCell(9999, 10000), NumCell(1, 10000000),
               NumCell(3661, 1) }

TimeValues == {NullCell} \cup { StrCell(s) : s \in TimeTexts } \cup TimeNumbers

TimeInit ==
    /\ call \in { [fn |-> "parseTimeToSeconds", value |-> v] : v \in TimeValues }
    /\ ret = NoCall
    /\ OthersIdle

CallParseTime ==
    /\ call.fn = "parseTimeToSeconds" /\ ret = NoCall
    /\ ret' = [fn |-> call.fn, value |-> parseTimeToSeconds(call.value)]
    /\ UNCHANGED <<call, codecVars, appVars, gapVars, exportVars>>

TimeNext == CallParseTime

SpecTime == TimeInit /\ [][TimeNext]_vars

\* C13: the result is an integer or no value. For every cell value,
\* parseTimeToSeconds returns either no value or a non-negative integer
\* number of seconds, never a negative or a non-integer number.
C13_IntegerOrNone ==
    ret.fn = "parseTimeToSeconds" =>
        \/ ret.value = <<>>
        \/ ret.value[1].num >= 0 /\ ret.value[1].num % ret.value[1].den = 0

\* round(num/den * 86400): the integer nearest to the product, the upper one
\* of two equally near
RoundedDayFraction(num, den) ==
    LET a == DayProduct(num, den).num
        b == DayProduct(num, den).den
    IN CHOOSE r \in {a \div b, a \div b + 1} :
          (2 * r - 1) * b <= 2 * a /\ 2 * a < (2 * r + 1) * b

\* the documented rule for the number num/den
TimeRuleNumber(num, den) ==
    IF 0 < num /\ num < den THEN <<[num |-> RoundedDayFraction(num, den), den |-> 1]>>
    ELSE IF num >= den THEN <<[num |-> num, den |-> den]>>
    ELSE <<>>

\* s consists of lo to hi digits
DigitsOfLen(s, lo, hi) == Len(s) >= lo /\ Len(s) <= hi /\ \A i \in 1..Len(s) : IsDigit(s[i])

\* the documented rule for a text, read without the blanks around it
TimeRuleText(s) ==
    LET t == Trim(s)
        n == Len(t)
        colons == {i \in 1..n : t[i] = ":"}
        hms == { <<i, j>> \in colons \X colons :
                    /\ i < j
                    /\ DigitsOfLen(SubSeq(t, 1, i - 1), 1, n)
                    /\ DigitsOfLen(SubSeq(t, i + 1, j - 1), 1, 2)
                    /\ DigitsOfLen(SubSeq(t, j + 1, n), 1, 2) }
        ms == { i \in colons :
                    /\ DigitsOfLen(SubSeq(t, 1, i - 1), 1, 2)
                    /\ DigitsOfLen(SubSeq(t, i + 1, n), 2, 2) }
    IN IF hms # {}
       THEN LET c == CHOOSE c \in hms : TRUE
            IN <<[num |-> DigitsToInt(SubSeq(t, 1, c[1] - 1)) * 3600
                            + DigitsToInt(SubSeq(t, c[1] + 1, c[2] - 1)) * 60
                            + DigitsToInt(SubSeq(t, c[2] + 1, n)),
                  den |-> 1]>>
       ELSE IF ms # {}
       THEN LET i == CHOOSE i \in ms : TRUE
            IN <<[num |-> DigitsToInt(SubSeq(t, 1, i - 1)) * 60
                            + DigitsToInt(SubSeq(t, i + 1, n)),
                  den |-> 1]>>
       ELSE IF ~parseFloat(t).nan
       THEN TimeRuleNumber(parseFloat(t).num, parseFloat(t).den)
       ELSE <<>>

TimeRule(v) ==
    IF v.t = "num" THEN TimeRuleNumber(v.num, v.den)
    ELSE IF v.t = "str" THEN TimeRuleText(v.s)
    ELSE <<>>

MaxTabRows == 3

TabRow(type, time) == (ColType :> type) @@ (<<"a">> :> StrCell(<<"1">>)) @@ (ColTime :> time)

TabRowPool ==
    { TabRow(StrCell(<<"A">>), StrCell(<<"0", ":", "0", "5">>)),
      TabRow(StrCell(<<"B", " ">>), StrCell(<<"0", ":", "0", "6">>)),
      TabRow(StrCell(<<"A">>), StrCell(<<"0", ":", "1", "0">>)),
      TabRow(StrCell(<<" ", "A">>), StrCell(<<"x">>)),
      TabRow(NumCell(1, 1), StrCell(<<"0", ":", "1", "0">>)),
      TabRow(StrCell(<<"C">>), NumCell(6, 1)),
      (<<"a">> :> StrCell(<<"2">>)) @@ (ColTime :> StrCell(<<"0", ":", "0", "5">>)) }

TabRowTypes == { <<>>, << <<"A">> >>, << <<"B">>, <<"1">> >> }

TabConfigs ==
    { [defaultConfig EXCEPT
          !.typeColumn = tyc, !.timeColumn = tc, !.gapThresholdSeconds = th,
          !.tabs = <<AppTab("t1", <<"X">>, rts, << <<"a">>, ColTime >>)>>] :
        tyc \in {<<>>, ColType}, tc \in {<<>>, ColTime}, th \in {2, 4},
        rts \in TabRowTypes }

TabInit ==
    /\ call \in { [fn |-> "buildWorkbook", rawRows |-> rs, config |-> cfg,
                     rawBuffer |-> NoUpload] :
                    rs \in SeqsUpTo(TabRowPool, MaxTabRows), cfg \in TabConfigs }
    /\ ret = NoCall
    /\ OthersIdle

CallBuildWorkbook ==
    /\ call.fn = "buildWorkbook" /\ ret = NoCall
    /\ ret' = [fn |-> call.fn,
               value |-> buildWorkbook(call.rawRows, SampleColumns, call.config,
                                       call.rawBuffer)]
    /\ UNCHANGED <<call, codecVars, appVars, gapVars, exportVars>>

TabNext == CallBuildWorkbook

SpecTab == TabInit /\ [][TabNext]_vars

\* the positions of the input rows the tab of the call must include
IncludedRows ==
    LET tab == call.config.tabs[1]
        tyc == call.config.typeColumn
    IN SelectSeq([i \in 1..Len(call.rawRows) |-> i],
                 LAMBDA i : (Len(tab.rowTypes) > 0 /\ tyc # <<>>) =>
                     Trim(CellToString(GetCell(call.rawRows[i], tyc)))
                         \in Elems(tab.rowTypes))

\* the body of the tab's sheet in the workbook returned
TabBody == ret.value.sheets[CHOOSE k \in 1..Len(ret.value.sheets) :
                               ret.value.sheets[k].kind = "tab"].body

\* the positions of the data rows in the body
DataPositions ==
    SelectSeq([p \in 1..Len(TabBody) |-> p], LAMBDA p : TabBody[p].kind = "row")

TabTime(i) == parseTimeToSeconds(GetCell(call.rawRows[i], call.config.timeColumn))

MaxGlobLen == 3

GlobPatternChars == {"P", "p", "*", "?", "."}
GlobValueChars == {"P", "p", "?", "."}

StrPLAY == <<"P", "L", "A", "Y">>
StrSTOP == <<"S", "T", "O", "P">>

GlobCalls ==
    { [fn |-> "globMatch", pattern |-> p, value |-> v] :
        p \in SeqsUpTo(GlobPatternChars, MaxGlobLen),
        v \in SeqsUpTo(GlobValueChars, MaxGlobLen) }
    \cup { [fn |-> "globMatch", pattern |-> p, value |-> v] :
             p \in { <<"P", "*">>, <<"*", "P">>, StrPLAY },
             v \in { StrPLAY, StrSTOP, <<"p", "l", "a", "y">> } }

GlobInit ==
    /\ call \in GlobCalls
    /\ ret = NoCall
    /\ OthersIdle

CallGlobMatch ==
    /\ call.fn = "globMatch" /\ ret = NoCall
    /\ ret' = [fn |-> call.fn, value |-> globMatch(call.pattern, call.value)]
    /\ UNCHANGED <<call, codecVars, appVars, gapVars, exportVars>>

GlobNext == CallGlobMatch

SpecGlob == GlobInit /\ [][GlobNext]_vars

\* the value matches the glob pattern: * stands for any run of characters,
\* every other character for itself, upper and lower case alike
RECURSIVE GlobAccepts(_, _)
GlobAccepts(p, v) ==
    IF p = <<>> THEN v = <<>>
    ELSE IF Head(p) = "*"
    THEN \E k \in 0..Len(v) : GlobAccepts(Tail(p), SubSeq(v, k + 1, Len(v)))
    ELSE v # <<>> /\ ToLower(<<Head(p)>>) = ToLower(<<Head(v)>>)
         /\ GlobAccepts(Tail(p), Tail(v))

\* C17: globMatch is glob matching. globMatch(pattern, value) returns true
\* exactly when the value matches the non-empty pattern read with * for any
\* run of characters and every other character, ? included, for itself,
\* without regard to case; "P*" matches "PLAY" and not "STOP", "*P" matches
\* "STOP", "PLAY" matches "play".
C17_GlobSemantics ==
    ret.fn = "globMatch" =>
        /\ ~ret.value.threw
        /\ ret.value.result = (call.pattern # <<>> /\ GlobAccepts(call.pattern, call.value))
        /\ (call.pattern = <<"P", "*">> /\ call.value = StrPLAY) => ret.value.result
        /\ (call.pattern = <<"P", "*">> /\ call.value = StrSTOP) => ~ret.value.result
        /\ (call.pattern = <<"*", "P">> /\ call.value = StrSTOP) => ret.value.result
        /\ (call.pattern = StrPLAY /\ call.value = <<"p", "l", "a", "y">>)
              => ret.value.result

(***************************************************************************)
(* resolveStyle on drawn rows and rule lists                               *)
(***************************************************************************)
MaxStyleRules == 2

StyleCondition(id, column, contains, bgColor, bold, italic) ==
    [makeCellConditionRule EXCEPT !.id = id, !.column = column, !.contains = contains,
                                  !.bgColor = bgColor, !.bold = bold, !.italic = italic]

\* k1 sets only a fill colour and k2 only bold; both carry the default font
\* size and name a new rule has.  k3's pattern is empty, k4's is "?", k5
\* has no font size and no font name.
StyleConditionPool ==
    { StyleCondition("k1", <<"a">>, <<"P", "*">>, <<"#", "2">>, FALSE, FALSE),
      StyleCondition("k2", <<>>, <<"p", "l", "a", "y">>, <<>>, TRUE, FALSE),
      StyleCondition("k3", <<"a">>, <<>>, <<"#", "3">>, FALSE, FALSE),
      StyleCondition("k4", ColTime, <<"?">>, <<>>, FALSE, TRUE),
      [StyleCondition("k5", ColTime, <<"0", ":", "*">>, <<"#", "5">>, FALSE, TRUE)
          EXCEPT !.fontSize = 0, !.fontName = <<>>] }

StyleRow(type, a, time) ==
    (ColType :> StrCell(type)) @@ (<<"a">> :> StrCell(a)) @@ (ColTime :> StrCell(time))

StyleRowPool ==
    { StyleRow(<<"A">>, StrPLAY, <<"0", ":", "0", "5">>),
      StyleRow(<<"B", " ">>, <<"p", "l", "a", "y">>, <<"0", ":", "1", "0">>),
      StyleRow(<<"C">>, StrSTOP, <<"x">>) }

StyleInit ==
    /\ call \in { [fn |-> "resolveStyle", rowTypeVal |-> ty, row |-> row,
                   rowFormats |-> rf, cellConditions |-> cc] :
                    ty \in {<<>>, <<"A">>, <<"B">>, <<"C">>},
                    row \in StyleRowPool \cup {<<>>},
                    rf \in SeqsUpTo(RowFormatPool, MaxStyleRules),
                    cc \in SeqsUpTo(StyleConditionPool, MaxStyleRules) }
    /\ ret = NoCall
    /\ OthersIdle

CallResolveStyle ==
    /\ call.fn = "resolveStyle" /\ ret = NoCall
    /\ ret' = [fn |-> call.fn,
               value |-> resolveStyle(call.rowTypeVal, call.row, call.rowFormats,
                                      call.cellConditions)]
    /\ UNCHANGED <<call, codecVars, appVars, gapVars, exportVars>>

StyleNext == CallResolveStyle

SpecStyle == StyleInit /\ [][StyleNext]_vars

\* the style a row of type value ty starts from: the first row rule of that
\* type, else the base style
StartStyle(rowFormats, ty) ==
    IF \E i \in 1..Len(rowFormats) : rowFormats[i].rowType = ty
    THEN StyleOf(rowFormats[CHOOSE i \in 1..Len(rowFormats) :
                               /\ rowFormats[i].rowType = ty
                               /\ \A j \in 1..(i - 1) : rowFormats[j].rowType # ty])
    ELSE [bgColor |-> <<>>, bold |-> FALSE, italic |-> FALSE, underline |-> FALSE,
          fontSize |-> 11, fontName |-> DEFAULT_FONT]

\* field f of the override replaces the field only if it is truthy
MergedField(start, over, f) ==
    LET truthy == IF f \in {"bold", "italic", "underline"} THEN over[f]
                  ELSE IF f = "fontSize" THEN over[f] # 0
                  ELSE over[f] # <<>>
    IN IF truthy THEN over[f] ELSE start[f]

StyleFieldNames == {"bgColor", "bold", "italic", "underline", "fontSize", "fontName"}

\* the override rule glob-matches the row: the value of its column, or of any
\* column when it names none; an empty pattern never matches
OverrideMatches(c, row) ==
    /\ c.contains # <<>>
    /\ IF c.column # <<>>
       THEN GlobAccepts(c.contains, CellToString(GetCell(row, c.column)))
       ELSE \E k \in DOMAIN row : GlobAccepts(c.contains, CellToString(row[k]))

\* C15: style precedence is a field-level merge. A resolved style is the
\* start style (first row rule of the row's type, else the base style) with,
\* for some override rule or none, exactly the truthy fields of that rule
\* put in place of the start style's; with a single override rule that
\* matches the row (its pattern free of ?) that rule is the one merged, and
\* with no override rule the style is the start style. So a bold row rule
\* under an override that sets only a fill colour stays bold and takes the
\* override's colour, and an override that sets only bold leaves the row
\* rule's colour.
C15_FieldLevelMerge ==
    (ret.fn = "resolveStyle" /\ ~ret.value.threw) =>
        LET start == StartStyle(call.rowFormats, call.rowTypeVal)
            cc == call.cellConditions
            merged(w) == [f \in StyleFieldNames |-> MergedField(start, cc[w], f)]
        IN /\ \/ ret.value.style = start
              \/ \E w \in 1..Len(cc) : ret.value.style = merged(w)
           /\ Len(cc) = 0 => ret.value.style = start
           /\ (Len(cc) = 1 /\ OverrideMatches(cc[1], call.row)
               /\ \A i \in 1..Len(cc[1].contains) : cc[1].contains[i] # "?")
                 => ret.value.style = merged(1)

\* C15 witness: a bold row rule with a fill colour has met a matching
\* override that sets only another fill colour, and the result is bold with
\* the override's colour
C15_Witness ==
    /\ ret.fn = "resolveStyle" /\ ~ret.value.threw
    /\ Len(call.rowFormats) > 0 /\ call.rowFormats[1].bold
    /\ call.rowFormats[1].rowType = call.rowTypeVal
    /\ Len(call.cellConditions) = 1
    /\ call.cellConditions[1].bgColor # <<>> /\ ~call.cellConditions[1].bold
    /\ call.cellConditions[1].bgColor # call.rowFormats[1].bgColor
    /\ OverrideMatches(call.cellConditions[1], call.row)
    /\ ret.value.style.bold
    /\ ret.value.style.bgColor = call.cellConditions[1].bgColor

\* C18: style resolution has no error outcome. For every row, type value and
\* rule lists resolveStyle returns a style and never raises; when no row
\* rule has the type value and no override matches, it is the base style (no
\* fill, not bold, italic or underlined, the default font name, size 11).
C18_NoErrorOutcome ==
    ret.fn = "resolveStyle" =>
        /\ ~ret.value.threw
        /\ ((\A i \in 1..Len(call.rowFormats) :
                 call.rowFormats[i].rowType # call.rowTypeVal)
            /\ (\A i \in 1..Len(call.cellConditions) :
                 ~OverrideMatches(call.cellConditions[i], call.row)))
              => ret.value.style =
                   [bgColor |-> <<>>, bold |-> FALSE, italic |-> FALSE,
                    underline |-> FALSE, fontSize |-> 11, fontName |-> DEFAULT_FONT]

(***************************************************************************)
(* buildPdf: for each tab with columns the body rows with their            *)
(* separators, and the style cellStyle gives each body cell                *)
(***************************************************************************)
StrSep == <<"_", "_", "s", "e", "p", "_", "_">>

\* cellStyle: fillColor is empty when out.fillColor is not set, fontStyle is
\* "" when out.fontStyle is not set
cellStyle(rowTypeVal, colHeader, cellVal, rowFormats, cellConditions) ==
    LET ri == findRowFormat(rowFormats, rowTypeVal)
        cellStr == ToLower(cellVal)
        hits == {i \in 1..Len(cellConditions) :
                    /\ cellConditions[i].column = <<>>
                         \/ cellConditions[i].column = colHeader
                    /\ cellConditions[i].contains # <<>>
                    /\ ContainsText(cellStr, ToLower(cellConditions[i].contains))}
        ci == IF hits = {} THEN 0 ELSE CHOOSE i \in hits : \A j \in hits : i <= j
        bgColor == IF ci # 0 /\ cellConditions[ci].bgColor # <<>>
                   THEN cellConditions[ci].bgColor
                   ELSE IF ri # 0 THEN rowFormats[ri].bgColor ELSE <<>>
        bold == (ci # 0 /\ cellConditions[ci].bold) \/ (ri # 0 /\ rowFormats[ri].bold)
        italic == (ci # 0 /\ cellConditions[ci].italic) \/ (ri # 0 /\ rowFormats[ri].italic)
    IN [fillColor |-> bgColor,
        fontStyle |-> IF bold /\ italic THEN "bolditalic"
                      ELSE IF bold THEN "bold"
                      ELSE IF italic THEN "italic" ELSE ""]

\* the section of the tab at position i, given its body entries
pdfSection(cfg, i, outRows) ==
    [tab |-> i, body |-> outRows,
     styles |-> [k \in 1..Len(outRows) |->
        [col \in Elems(cfg.tabs[i].columns) |->
            IF outRows[k].kind = "row"
            THEN cellStyle(rowTypeValOf(outRows[k].row, cfg.typeColumn), col,
                           CellToString(GetCell(outRows[k].row, col)),
                           cfg.rowFormats, cfg.cellConditions)
            ELSE cellStyle(StrSep, col, <<>>, cfg.rowFormats, cfg.cellConditions)]]]

buildPdf(rawRows, cfg) ==
    [s \in 1..Len(TabsWithColumns(cfg)) |->
        TheOne({ pdfSection(cfg, TabsWithColumns(cfg)[s], outRows) :
                   outRows \in { segmentRows(
                       filterRows(rawRows, cfg.tabs[TabsWithColumns(cfg)[s]],
                                  cfg.typeColumn),
                       [timeColumn |-> cfg.timeColumn,
                        gapThresholdSeconds |-> cfg.gapThresholdSeconds]) } })]

(***************************************************************************)
(* Both builders on drawn rows, row rules and override rules               *)
(***************************************************************************)
MaxCellRows == 2

CellConfigs ==
    { [defaultConfig EXCEPT
          !.typeColumn = ColType, !.timeColumn = ColTime,
          !.tabs = <<AppTab("t1", <<"X">>, <<>>, << <<"a">>, ColTime >>)>>,
          !.rowFormats = rf, !.cellConditions = cc] :
        rf \in SeqsUpTo(RowFormatPool, MaxStyleRules),
        cc \in SeqsUpTo(StyleConditionPool, MaxStyleRules) }

CellsInit ==
    /\ call \in { [fn |-> fn, rawRows |-> rs, config |-> cfg, rawBuffer |-> NoUpload] :
                    fn \in {"buildWorkbook", "buildPdf"},
                    rs \in SeqsUpTo(StyleRowPool, MaxCellRows), cfg \in CellConfigs }
    /\ ret = NoCall
    /\ OthersIdle

CallBuildPdf ==
    /\ call.fn = "buildPdf" /\ ret = NoCall
    /\ ret' = [fn |-> call.fn, value |-> buildPdf(call.rawRows, call.config)]
    /\ UNCHANGED <<call, codecVars, appVars, gapVars, exportVars>>

CellsNext == CallBuildWorkbook \/ CallBuildPdf

SpecCells == CellsInit /\ [][CellsNext]_vars

\* the tab sheet of the workbook returned
TabSheetOf(wb) == wb.sheets[CHOOSE k \in 1..Len(wb.sheets) : wb.sheets[k].kind = "tab"]

\* the override rules that may apply to a cell of column col of the row: the
\* column is empty or col, and the pattern matches the cell's value, or any
\* value of the row when the column is empty
OverridesOfCell(cc, row, col) ==
    {i \in 1..Len(cc) :
        /\ cc[i].contains # <<>>
        /\ \/ cc[i].column = col
                 /\ globMatch(cc[i].contains, CellToString(GetCell(row, col))).result
           \/ cc[i].column = <<>>
                 /\ \E k \in DOMAIN row :
                       globMatch(cc[i].contains, CellToString(row[k])).result}

\* C16: override selection is per target cell and first-match. In a built
\* workbook the style of the data cell in column k of a row is the row's
\* start style merged with the first override rule in list order whose
\* column is empty or k and whose non-empty pattern matches (the cell's own
\* value, or any value of the row when the column is empty); a rule of
\* another column is not applied to the cell and later rules contribute
\* nothing.
C16_PerCellFirstMatch ==
    (ret.fn = "buildWorkbook" /\ ret.value.status = "ok") =>
        LET sh == TabSheetOf(ret.value)
            cfg == call.config
        IN \A k \in 1..Len(sh.body) : \A col \in Elems(sh.header) :
              sh.body[k].kind = "row" =>
                 LET row == sh.body[k].row
                     start == StartStyle(cfg.rowFormats,
                                         Trim(CellToString(GetCell(row, cfg.typeColumn))))
                     wins == OverridesOfCell(cfg.cellConditions, row, col)
                     w == CHOOSE i \in wins : \A j \in wins : i <= j
                 IN /\ ~sh.styles[k][col].threw
                    /\ sh.styles[k][col].style =
                         IF wins = {} THEN start
                         ELSE [f \in StyleFieldNames |->
                                  MergedField(start, cfg.cellConditions[w], f)]

\* C19: the paginated-document builder resolves styles as the spreadsheet
\* builder does. For the same rows and configuration both builds succeed,
\* each tab has the same sequence of data rows and separators in both, and
\* every body cell has the same fill colour, bold and italic in both.
C19_PdfMirrorsWorkbook ==
    ret.fn = "buildPdf" =>
        \E wb \in {buildWorkbook(call.rawRows, SampleColumns, call.config, NoUpload)} :
            /\ wb.status = "ok"
            /\ \A s \in 1..Len(ret.value) :
                 LET sh == TabSheetOf(wb)
                     sec == ret.value[s]
                 IN /\ sec.body = sh.body
                    /\ \A k \in 1..Len(sec.body) : \A col \in Elems(sh.header) :
                          sec.body[k].kind = "row" =>
                             /\ sec.styles[k][col].fillColor = sh.styles[k][col].style.bgColor
                             /\ (sec.styles[k][col].fontStyle \in {"bold", "bolditalic"})
                                   = sh.styles[k][col].style.bold
                             /\ (sec.styles[k][col].fontStyle \in {"italic", "bolditalic"})
                                   = sh.styles[k][col].style.italic

(***************************************************************************)
(* applyTitleBlock on drawn column counts and title blocks                 *)
(***************************************************************************)
MaxColumns == 50

TitleBlocks ==
    { [defaultTitleBlock EXCEPT !.enabled = TRUE, !.note1 = n1, !.note2 = n2] :
        n1 \in {<<>>, <<"n">>},
        n2 \in {<<>>, <<" ">>, <<"m">>, <<" ", "m", " ">>} }

TitleInit ==
    /\ call \in { [fn |-> "applyTitleBlock", tb |-> tb, colCount |-> n] :
                    tb \in TitleBlocks, n \in 1..MaxColumns }
    /\ ret = NoCall
    /\ OthersIdle

CallApplyTitleBlock ==
    /\ call.fn = "applyTitleBlock" /\ ret = NoCall
    /\ ret' = [fn |-> call.fn, value |-> applyTitleBlock(call.tb, call.colCount)]
    /\ UNCHANGED <<call, codecVars, appVars, gapVars, exportVars>>

TitleNext == CallApplyTitleBlock

SpecTitle == TitleInit /\ [][TitleNext]_vars

\* max(1, floor(n * pct / 100)): 1, or the greatest w with 100 w <= pct n
ClaimedWidth(n, pct) ==
    CHOOSE w \in 1..n : (w = 1 \/ 100 * w <= pct * n) /\ 100 * (w + 1) > pct * n

\* the columns a merged range covers
WidthOf(m) == m.right - m.left + 1

\* C20: title-block geometry. For n columns the left block is
\* max(1, floor(0.22 n)) columns wide from column 1, the right block
\* max(1, floor(0.20 n)) columns wide up to column n, and each content row
\* of the middle is merged over the remaining n - left - right columns
\* between them (no middle range when none remains); for n = 10 the widths
\* are 2, 2 and 6. There are 4 content rows when note 2 is empty or blank
\* and 5 otherwise, and the blocks span all of them.
C20_TitleGeometry ==
    ret.fn = "applyTitleBlock" =>
        LET n == call.colCount
            l == ClaimedWidth(n, 22)
            r == ClaimedWidth(n, 20)
            rowsClaimed == IF \A i \in 1..Len(call.tb.note2) : call.tb.note2[i] = " "
                           THEN 4 ELSE 5
            m == ret.value.merges
        IN /\ \E x \in m : x.left = 1 /\ WidthOf(x) = l /\ x.top = 1 /\ x.bottom = rowsClaimed
           /\ \E x \in m : x.right = n /\ WidthOf(x) = r /\ x.top = 1 /\ x.bottom = rowsClaimed
           /\ ret.value.lCols = l /\ ret.value.rCols = r
           /\ ret.value.mEnd - ret.value.mStart + 1 = n - l - r
           /\ n - l - r > 0 =>
                 \A q \in 1..rowsClaimed :
                    \E x \in m : /\ x.top = q /\ x.bottom = q
                                 /\ x.left = l + 1 /\ WidthOf(x) = n - l - r
           /\ n - l - r <= 0 => Cardinality(m) <= 2
           /\ Cardinality(m) <= 2 + rowsClaimed
           /\ ret.value.dataRows = rowsClaimed
           /\ n = 10 => l = 2 /\ r = 2 /\ ret.value.mEnd - ret.value.mStart + 1 = 6

\* C20 witness: the layout of 10 columns with a second note has returned
\* with regions 2, 6 and 2 columns wide over 5 content rows
C20_Witness ==
    /\ ret.fn = "applyTitleBlock" /\ call.colCount = 10
    /\ Len(Trim(call.tb.note2)) > 0
    /\ ret.value.lCols = 2 /\ ret.value.rCols = 2
    /\ ret.value.mEnd - ret.value.mStart + 1 = 6
    /\ ret.value.dataRows = 5

(***************************************************************************)
(* parseConfigSheet on drawn sheets of group rows                          *)
(***************************************************************************)
MaxSheetRows == 4

DecodeRowPool ==
    { <<"Tab Name", <<"A">>>>, <<"Tab Name", <<"B">>>>,
      <<"Tab Columns", <<"a">>>>, <<"Tab Columns", <<"b">>>>,
      <<"Output Tabs", <<>>>>, <<"Row Formats", <<>>>>,
      <<"Row Name", <<"X">>>>, <<"Row Colour", <<"F">>>>,
      <<"Override Column", <<"a">>>>, <<"Override Value", <<"v">>>> }

DecodeInit ==
    /\ call \in { [fn |-> "parseConfigSheet", rows |-> rs] :
                    rs \in SeqsUpTo(DecodeRowPool, MaxSheetRows) }
    /\ ret = NoCall
    /\ OthersIdle

CallParseConfigSheet ==
    /\ call.fn = "parseConfigSheet" /\ ret = NoCall
    /\ ret' = [fn |-> call.fn, value |-> parseConfigSheet(call.rows)]
    /\ UNCHANGED <<call, codecVars, appVars, gapVars, exportVars>>

DecodeNext == CallParseConfigSheet

SpecDecode == DecodeInit /\ [][DecodeNext]_vars

\* the positions of the rows of rs with the given anchor key
AnchorRows(rs, anchor) == { p \in 1..Len(rs) : KeyNorm(rs[p][1]) = anchor }

\* the k-th of a set of positions
NthOf(S, k) == CHOOSE p \in S : Cardinality({ q \in S : q < p }) = k - 1

\* the first position after p that holds a group anchor or a section
\* header, or the position after the last row
ScopeEnd(rs, p) ==
    LET B == { q \in (p + 1)..Len(rs) :
                 KeyNorm(rs[q][1]) \in GROUP_ANCHORS \cup SECTION_HEADERS }
    IN IF B = {} THEN Len(rs) + 1 ELSE CHOOSE q \in B : \A x \in B : q <= x

\* the value of the last row with one of the keys between the anchor at p
\* and the end of its scope, or the default when there is none
ScopedValue(rs, p, keys, default) ==
    LET S == { q \in (p + 1)..(ScopeEnd(rs, p) - 1) : KeyNorm(rs[q][1]) \in keys }
    IN IF S = {} THEN default
       ELSE Trim(rs[CHOOSE q \in S : \A x \in S : x <= q][2])

\* the list a decoded configuration holds under a field, empty when absent
DecodedList(cfg, field) == IF field \in DOMAIN cfg THEN cfg[field] ELSE <<>>

\* C21: decode group boundaries. The decoded lists hold one record per
\* anchor row, in the order of the anchors, and each record carries the
\* values of the sub-key rows between its anchor and the next group anchor
\* or section header only: a sub-key after a later section header or after
\* an anchor of another kind leaves the earlier record as it was.
C21_GroupBoundaries ==
    ret.fn = "parseConfigSheet" =>
        LET rs == call.rows
            tabAt == AnchorRows(rs, "tab name")
            fmtAt == AnchorRows(rs, "row name")
            condAt == AnchorRows(rs, "override column")
        IN /\ DecodedList(ret.value, "tabs") =
                [k \in 1..Cardinality(tabAt) |->
                    [id |-> FreshId, name |-> Trim(rs[NthOf(tabAt, k)][2]),
                     rowTypes |-> SplitList(ScopedValue(rs, NthOf(tabAt, k),
                                      {"row types", "tab row types"}, <<>>)),
                     columns |-> SplitList(ScopedValue(rs, NthOf(tabAt, k),
                                      {"columns", "tab columns"}, <<>>))]]
           /\ DecodedList(ret.value, "rowFormats") =
                [k \in 1..Cardinality(fmtAt) |->
                    [makeRowFormatRule(Trim(rs[NthOf(fmtAt, k)][2])) EXCEPT
                       !.bgColor = ScopedValue(rs, NthOf(fmtAt, k),
                                       {"row colour", "row bg color"}, <<>>)]]
           /\ DecodedList(ret.value, "cellConditions") =
                [k \in 1..Cardinality(condAt) |->
                    [makeCellConditionRule EXCEPT
                       !.column = Trim(rs[NthOf(condAt, k)][2]),
                       !.contains = ScopedValue(rs, NthOf(condAt, k),
                                       {"override value"}, <<>>)]]

(***************************************************************************)
(* The tab list editor (OutputTabsCard, TabEditor).  A tab id is            *)
(* `tab-${Date.now()}-${Math.random().toString(36).slice(2, 7)}`: the pair  *)
(* of the clock reading and the random suffix, both given by the            *)
(* environment.  call holds the last handler that ran with its arguments    *)
(* and the clock reading; the clock does not run backwards.                 *)
(***************************************************************************)
MaxEditTabs == 2
MaxClock == 1
MaxEditName == 8

RandomSuffixes == {"r1", "r2"}

StrTabLabel == <<"T", "a", "b", " ">>
StrCopySuffix == <<" ", "(", "c", "o", "p", "y", ")">>

EditPartials ==
    { [field |-> "name", value |-> <<"A">>],
      [field |-> "rowTypes", value |-> << <<"X">> >>],
      [field |-> "columns", value |-> << <<"a">> >>] }

EditInit ==
    /\ step = "configure"
    /\ config = defaultConfig
    /\ upload = NoUpload
    /\ savedConfig = <<>>
    /\ workbook = NoWorkbook
    /\ call = [fn |-> "mount", index |-> 0, now |-> 0, rand |-> "r1"]
    /\ ret = NoCall
    /\ CodecIdle /\ GapIdle /\ ExportIdle

\* addTab: onChange([...tabs, makeTab(`Tab ${tabs.length + 1}`)])
AddTab(now, rand) ==
    /\ step = "configure"
    /\ Len(config.tabs) < MaxEditTabs
    /\ now >= call.now
    /\ config' = autoSyncRowFormats([config EXCEPT !.tabs =
            @ \o <<[id |-> [now |-> now, rand |-> rand],
                    name |-> StrTabLabel \o NatToStr(Len(config.tabs) + 1),
                    rowTypes |-> <<>>, columns |-> <<>>]>>])
    /\ call' = [fn |-> "addTab", index |-> Len(config.tabs) + 1, now |-> now, rand |-> rand]
    /\ UNCHANGED <<step, upload, savedConfig, workbook, ret, codecVars, gapVars, exportVars>>

\* TabEditor.patch(partial) and updateTab(index, { ...tab, ...partial })
UpdateTab(index, partial) ==
    /\ step = "configure"
    /\ index \in 1..Len(config.tabs)
    /\ config' = autoSyncRowFormats([config EXCEPT !.tabs[index] =
            [f \in DOMAIN @ |-> IF f = partial.field THEN partial.value ELSE @[f]]])
    /\ call' = [call EXCEPT !.fn = "updateTab", !.index = index]
    /\ UNCHANGED <<step, upload, savedConfig, workbook, ret, codecVars, gapVars, exportVars>>

\* deleteTab: onChange(tabs.filter((_, i) => i !== index))
DeleteTab(index) ==
    /\ step = "configure"
    /\ index \in 1..Len(config.tabs)
    /\ config' = autoSyncRowFormats([config EXCEPT !.tabs =
            SubSeq(@, 1, index - 1) \o SubSeq(@, index + 1, Len(@))])
    /\ call' = [call EXCEPT !.fn = "deleteTab", !.index = index]
    /\ UNCHANGED <<step, upload, savedConfig, workbook, ret, codecVars, gapVars, exportVars>>

\* duplicateTab: the copy, with an id of its own, is spliced in after the source
DuplicateTab(index, now, rand) ==
    /\ step = "configure"
    /\ index \in 1..Len(config.tabs)
    /\ Len(config.tabs) < MaxEditTabs
    /\ Len(config.tabs[index].name) + Len(StrCopySuffix) <= MaxEditName
    /\ now >= call.now
    /\ config' = autoSyncRowFormats([config EXCEPT !.tabs =
            SubSeq(@, 1, index)
              \o <<[id |-> [now |-> now, rand |-> rand],
                    name |-> @[index].name \o StrCopySuffix,
                    rowTypes |-> @[index].rowTypes,
                    columns |-> @[index].columns]>>
              \o SubSeq(@, index + 1, Len(@))])
    /\ call' = [fn |-> "duplicateTab", index |-> index, now |-> now, rand |-> rand]
    /\ UNCHANGED <<step, upload, savedConfig, workbook, ret, codecVars, gapVars, exportVars>>

\* moveTab: the tab and its neighbour change places; at either end nothing
\* happens (if (target < 0 || target >= next.length) return)
MoveTab(index, direction) ==
    /\ step = "configure"
    /\ index \in 1..Len(config.tabs)
    /\ \E target \in {IF direction = "up" THEN index - 1 ELSE index + 1} :
          /\ target \in 1..Len(config.tabs)
          /\ config' = autoSyncRowFormats([config EXCEPT !.tabs =
                  [@ EXCEPT ![index] = config.tabs[target],
                             ![target] = config.tabs[index]]])
    /\ call' = [call EXCEPT !.fn = IF direction = "up" THEN "moveUp" ELSE "moveDown",
                            !.index = index]
    /\ UNCHANGED <<step, upload, savedConfig, workbook, ret, codecVars, gapVars, exportVars>>

EditNext ==
    \/ \E now \in 0..MaxClock, rand \in RandomSuffixes : AddTab(now, rand)
    \/ \E i \in 1..MaxEditTabs, partial \in EditPartials : UpdateTab(i, partial)
    \/ \E i \in 1..MaxEditTabs : DeleteTab(i)
    \/ \E i \in 1..MaxEditTabs, now \in 0..MaxClock, rand \in RandomSuffixes :
          DuplicateTab(i, now, rand)
    \/ \E i \in 1..MaxEditTabs, direction \in {"up", "down"} : MoveTab(i, direction)

SpecEdit == EditInit /\ [][EditNext]_vars

\* the ids of a tab list, in list order
TabIds(tabs) == [i \in 1..Len(tabs) |-> tabs[i].id]

\* a sequence without its i-th element
Without(s, i) == SubSeq(s, 1, i - 1) \o SubSeq(s, i + 1, Len(s))

\* C22: tab ids are stable and fresh. Renaming a tab, changing its row
\* types or columns, moving it and deleting or duplicating another tab
\* leave every remaining tab with the id it had (the ids of the list are
\* the same, swapped for a move, with one taken out for a delete and one put
\* in for a duplicate or an add), and the id put in by a duplicate or an
\* add differs from every id already in the list.
C22_StableFreshIds ==
    [][ LET old == TabIds(config.tabs)
            new == TabIds(config'.tabs)
            i == call'.index
        IN CASE call'.fn = "updateTab" -> new = old
             [] call'.fn = "moveUp" ->
                  new = [old EXCEPT ![i] = old[i - 1], ![i - 1] = old[i]]
             [] call'.fn = "moveDown" ->
                  new = [old EXCEPT ![i] = old[i + 1], ![i + 1] = old[i]]
             [] call'.fn = "deleteTab" -> new = Without(old, i)
             [] call'.fn = "duplicateTab" ->
                  /\ Without(new, i + 1) = old
                  /\ \A k \in 1..Len(old) : old[k] # new[i + 1]
             [] call'.fn = "addTab" ->
                  /\ Without(new, Len(new)) = old
                  /\ \A k \in 1..Len(old) : old[k] # new[Len(new)]
             [] OTHER -> TRUE ]_vars

(***************************************************************************)
(* buildWorkbook on drawn upload buffers, with and without a master sheet  *)
(***************************************************************************)
MaxMasterRows == 2
MaxMasterTabs == 2

\* a loadable workbook of 100 bytes: too few for the loader to be tried
TinyFile == [PlainFile EXCEPT !.byteLength = 100]

\* no buffer (a CSV upload), too few bytes, a file the library fails on, and
\* a file it loads
MasterBuffers == {NoUpload, TinyFile, UnloadableFile, PlainFile}

MasterTabPool ==
    { AppTab("t1", <<"X">>, << <<"A">> >>, << <<"a">>, ColTime >>),
      AppTab("t2", <<"Y">>, <<>>, << <<"a">> >>),
      AppTab("t3", <<"y">>, <<>>, << <<"a">> >>),
      AppTab("t4", StrConfiguration, <<>>, << <<"a">> >>),
      AppTab("t5", <<"Z">>, <<>>, <<>>),
      AppTab("t6", StrMaster, <<>>, << <<"a">> >>) }

MasterConfigs ==
    { [defaultConfig EXCEPT !.typeColumn = ColType, !.timeColumn = ColTime,
                            !.includeMasterSheet = m, !.tabs = tabs] :
        m \in BOOLEAN, tabs \in SeqsUpTo(MasterTabPool, MaxMasterTabs) }

MasterInit ==
    /\ call \in { [fn |-> "buildWorkbook", rawRows |-> rs, config |-> cfg,
                   rawBuffer |-> b] :
                    rs \in SeqsUpTo(TabRowPool, MaxMasterRows), cfg \in MasterConfigs,
                    b \in MasterBuffers }
    /\ ret = NoCall
    /\ OthersIdle

MasterNext == CallBuildWorkbook

SpecMaster == MasterInit /\ [][MasterNext]_vars

\* the call asks for a master sheet and the original workbook is not used:
\* there is no buffer of more than 100 bytes, or loading it fails
MasterFallback ==
    /\ call.fn = "buildWorkbook" /\ ret.fn = "buildWorkbook"
    /\ call.config.includeMasterSheet
    /\ call.rawBuffer.byteLength <= 100 \/ ~call.rawBuffer.loadable

\* C23: master-sheet fallback. When a master sheet is asked for and the
\* original workbook is not used, the build does not fail; the first sheet
\* of the result is named Master and holds the row of all column names and
\* below it one row per input record in input order; after it come one
\* sheet per tab with columns, in tab order, and the Configuration sheet.
C23_MasterFallback ==
    MasterFallback =>
        LET wb == ret.value
            withColumns == TabsWithColumns(call.config)
        IN /\ wb.status = "ok"
           /\ Len(wb.sheets) = 1 + Len(withColumns) + 1
           /\ wb.sheets[1].name = StrMaster
           /\ wb.sheets[1].top = SampleColumns
           /\ wb.sheets[1].headerRow = 1
           /\ wb.sheets[1].body =
                 [i \in 1..Len(call.rawRows) |-> RowEntry(call.rawRows[i])]
           /\ \A k \in 1..Len(withColumns) :
                 /\ wb.sheets[1 + k].kind = "tab"
                 /\ wb.sheets[1 + k].tab = withColumns[k]
           /\ wb.sheets[Len(wb.sheets)].kind = "config"
           /\ wb.sheets[Len(wb.sheets)].name = StrConfiguration

(***************************************************************************)
(* buildWorkbook on drawn rows with and without a title block              *)
(***************************************************************************)
MaxLayoutRows == 3

LayoutConfigs ==
    { [defaultConfig EXCEPT
          !.typeColumn = ColType, !.timeColumn = ColTime, !.gapThresholdSeconds = th,
          !.includeMasterSheet = FALSE,
          !.titleBlock = [defaultTitleBlock EXCEPT !.enabled = en, !.note2 = n2],
          !.tabs = <<AppTab("t1", <<"X">>, <<>>, cols)>>] :
        th \in {0, 2}, en \in BOOLEAN, n2 \in {<<>>, <<" ">>, <<"m">>},
        cols \in { << <<"a">> >>, << <<"a">>, ColTime >> } }

LayoutInit ==
    /\ call \in { [fn |-> "buildWorkbook", rawRows |-> rs, config |-> cfg,
                   rawBuffer |-> NoUpload] :
                    rs \in SeqsUpTo(TabRowPool, MaxLayoutRows), cfg \in LayoutConfigs }
    /\ ret = NoCall
    /\ OthersIdle

LayoutNext == CallBuildWorkbook

SpecLayout == LayoutInit /\ [][LayoutNext]_vars

\* the rows the title block of the call consumes as the claim counts them:
\* 4 content rows, 5 with a second note, and one spacer row
ConsumedRows ==
    IF \A i \in 1..Len(call.config.titleBlock.note2) : call.config.titleBlock.note2[i] = " "
    THEN 5 ELSE 6

\* C24: row cursor of a tab sheet. The header row is row 1 without a title
\* block and row 1 + consumed rows (5 or 6, which is what the title block
\* returns and more than the rows its cells occupy) with one; the frozen
\* pane is split at the header row; the k-th item of the segmented sequence
\* is written at row header + k, so that the items have rows of their own
\* below the header.
C24_RowCursor ==
    (ret.fn = "buildWorkbook" /\ ret.value.status = "ok") =>
        LET sh == TabSheetOf(ret.value)
            tb == applyTitleBlock(call.config.titleBlock, Len(sh.header))
        IN /\ sh.headerRow = IF call.config.titleBlock.enabled THEN 1 + ConsumedRows ELSE 1
           /\ call.config.titleBlock.enabled =>
                 /\ tb.rowCount = ConsumedRows
                 /\ \A m \in tb.merges : m.top >= 1 /\ m.bottom < sh.headerRow - 1
           /\ sh.ySplit = sh.headerRow
           /\ Len(sh.rowNums) = Len(sh.body)
           /\ \A k \in 1..Len(sh.body) : sh.rowNums[k] = sh.headerRow + k
           /\ \A j, k \in 1..Len(sh.body) : j # k => sh.rowNums[j] # sh.rowNums[k]

\* C24 witness: a sheet with a title block of 6 consumed rows has been built
\* whose items, a separator among them, stand at rows 8, 9 and 10
C24_Witness ==
    /\ ret.fn = "buildWorkbook" /\ ret.value.status = "ok"
    /\ call.config.titleBlock.enabled
    /\ TabSheetOf(ret.value).headerRow = 7
    /\ Len(TabSheetOf(ret.value).body) = 3
    /\ TabSheetOf(ret.value).body[2] = SepEntry
    /\ TabSheetOf(ret.value).rowNums = <<8, 9, 10>>

(***************************************************************************)
(* Further codec claims                                                    *)
(***************************************************************************)
\* no two entries of a list of the configuration have the same identity
DistinctIdentities(c) ==
    /\ \A i, j \in 1..Len(c.tabs) : i # j => c.tabs[i].name # c.tabs[j].name
    /\ \A i, j \in 1..Len(c.rowFormats) :
          i # j => c.rowFormats[i].rowType # c.rowFormats[j].rowType
    /\ \A i, j \in 1..Len(c.cellConditions) :
          i # j => <<c.cellConditions[i].column, c.cellConditions[i].contains>>
                      # <<c.cellConditions[j].column, c.cellConditions[j].contains>>

\* the fields of a rule that the merge keeps current
RuleStyleFields(r) == <<r.bold, r.italic, r.bgColor, r.fontSize, r.fontName>>

\* C25: merge keeps persisted values current. After an encode of a
\* configuration with pairwise distinct identities over any sheet, decoding
\* the sheet gives for every tab, row-format rule and override rule of the
\* configuration a record of its identity, and every record of that
\* identity carries the configuration's rowTypes and columns, or its bold,
\* italic, bgColor, fontSize and fontName.
C25_MergeKeepsCurrent ==
    (nEnc > 0 /\ DistinctIdentities(encConfig)) =>
        LET d == OverDefaults(parseConfigSheet(sheet))
        IN /\ \A t \in Elems(encConfig.tabs) :
                 /\ \E x \in Elems(d.tabs) : x.name = t.name
                 /\ \A x \in Elems(d.tabs) :
                       x.name = t.name =>
                           x.rowTypes = t.rowTypes /\ x.columns = t.columns
           /\ \A r \in Elems(encConfig.rowFormats) :
                 /\ \E x \in Elems(d.rowFormats) : x.rowType = r.rowType
                 /\ \A x \in Elems(d.rowFormats) :
                       x.rowType = r.rowType => RuleStyleFields(x) = RuleStyleFields(r)
           /\ \A r \in Elems(encConfig.cellConditions) :
                 /\ \E x \in Elems(d.cellConditions) :
                       x.column = r.column /\ x.contains = r.contains
                 /\ \A x \in Elems(d.cellConditions) :
                       (x.column = r.column /\ x.contains = r.contains)
                           => RuleStyleFields(x) = RuleStyleFields(r)

(***************************************************************************)
(* Repeated exports from an empty sheet: the sheet a first export wrote,   *)
(* then further exports, every configuration with distinct identities      *)
(***************************************************************************)
DistinctConfigs == { c \in Configs : DistinctIdentities(c) }

\* the configurations of the first export: the default singletons, no tab
AccumStarts ==
    { c \in DistinctConfigs :
        c.tabs = <<>> /\ singletonsOf(c) = singletonsOf(defaultConfig) }

AccumInit ==
    /\ \E c \in AccumStarts :
          /\ sheet = encodeSnapshot(<<>>, c)
          /\ encConfig = c
    /\ prevSheet = sheet
    /\ nEnc = 0
    /\ AppIdle /\ GapIdle /\ CallIdle /\ ExportIdle

AccumNext ==
    \/ \E c \in DistinctConfigs : EncodeFirst(c)
    \/ \E c \in EditsOf(encConfig) \cap DistinctConfigs : EncodeAgain(c)

SpecAccum == AccumInit /\ [][AccumNext]_vars

\* the identity of the group anchored at row j of sheet s
GroupIdentity(s, j) ==
    IF KeyNorm(s[j][1]) = "override column"
    THEN <<"override column", s[j][2], GroupContains(s, j)>>
    ELSE <<KeyNorm(s[j][1]), s[j][2]>>

\* C26: no duplicate groups accumulate. Over exports that start from an
\* empty sheet, each of a configuration with pairwise distinct identities,
\* the sheet never holds two Tab Name anchors with the same name, two Row
\* Name anchors with the same row type, two Override Column groups with the
\* same column and contains value, or the same singleton key twice.
C26_NoDuplicateGroups ==
    /\ \A i, j \in 1..Len(sheet) :
          (/\ i < j
           /\ KeyNorm(sheet[i][1]) \in GROUP_ANCHORS
           /\ KeyNorm(sheet[j][1]) = KeyNorm(sheet[i][1]))
              => GroupIdentity(sheet, i) # GroupIdentity(sheet, j)
    /\ \A i, j \in 1..Len(sheet) :
          (i < j /\ KeyNorm(sheet[i][1]) \in INDEXED_SINGLETONS)
              => KeyNorm(sheet[j][1]) # KeyNorm(sheet[i][1])

\* C27: one group per entry on an empty sheet. After an encode onto the
\* empty sheet the sheet holds as many Tab Name, Row Name and Override
\* Column anchor rows as the configuration has tabs, row-format rules and
\* override rules, two entries of one identity included, and the i-th group
\* of each kind decodes to the values of the i-th entry.
C27_OneGroupPerEntry ==
    (nEnc = 1 /\ prevSheet = <<>>) =>
        LET d == OverDefaults(parseConfigSheet(sheet))
        IN /\ Cardinality(AnchorRows(sheet, "tab name")) = Len(encConfig.tabs)
           /\ Cardinality(AnchorRows(sheet, "row name")) = Len(encConfig.rowFormats)
           /\ Cardinality(AnchorRows(sheet, "override column"))
                 = Len(encConfig.cellConditions)
           /\ MapTabFields(d.tabs) = MapTabFields(encConfig.tabs)
           /\ [i \in 1..Len(d.rowFormats) |->
                 <<d.rowFormats[i].rowType, RuleStyleFields(d.rowFormats[i])>>]
              = [i \in 1..Len(encConfig.rowFormats) |->
                 <<encConfig.rowFormats[i].rowType,
                   RuleStyleFields(encConfig.rowFormats[i])>>]
           /\ [i \in 1..Len(d.cellConditions) |->
                 <<d.cellConditions[i].column, d.cellConditions[i].contains,
                   RuleStyleFields(d.cellConditions[i])>>]
              = [i \in 1..Len(encConfig.cellConditions) |->
                 <<encConfig.cellConditions[i].column,
                   encConfig.cellConditions[i].contains,
                   RuleStyleFields(encConfig.cellConditions[i])>>]

\* the cells of a merged range
CellsOf(m) == (m.top..m.bottom) \X (m.left..m.right)

\* C28: the title-block regions partition the columns. For every column
\* count the left columns 1..left, the middle columns left+1..n-right and
\* the right columns n-right+1..n are pairwise disjoint and together are
\* the columns 1..n; no cell lies in two merged ranges; and the middle
\* texts are written to no cell of the left or the right region.
C28_RegionsPartition ==
    ret.fn = "applyTitleBlock" =>
        LET n == call.colCount
            v == ret.value
            L == 1..v.lCols
            M == v.mStart..v.mEnd
            R == v.rStart..n
        IN /\ L \cap M = {} /\ L \cap R = {} /\ M \cap R = {}
           /\ L \cup M \cup R = 1..n
           /\ \A x, y \in v.merges : x # y => CellsOf(x) \cap CellsOf(y) = {}
           /\ \A c \in v.midCells : c.col \in (1..n) \ (L \cup R)

(***************************************************************************)
(* Export specification: the export handlers of ConfigureStep as the       *)
(* asynchronous functions they are.  A handler runs up to its first await  *)
(* in the click that started it and settles in a later task; in between    *)
(* the page takes further events.  What the awaited build and download do  *)
(* is drawn when the export starts: they return, throw an Error with a     *)
(* message, or throw something that is not an Error.                       *)
(***************************************************************************)
MaxInFlight == 3

StrBoom == "boom"
StrExportFailed == "Export failed."
StrPdfExportFailed == "PDF export failed."

ExportOutcomes ==
    { [threw |-> FALSE, isError |-> FALSE, message |-> ""],
      [threw |-> TRUE, isError |-> TRUE, message |-> StrBoom],
      [threw |-> TRUE, isError |-> FALSE, message |-> ""] }

\* err instanceof Error ? err.message : <the handler's fixed text>
MessageOf(e) ==
    IF e.outcome.isError THEN e.outcome.message
    ELSE IF e.kind = "xlsx" THEN StrExportFailed ELSE StrPdfExportFailed

ExportInit ==
    /\ step = "upload"
    /\ config = defaultConfig
    /\ upload = NoUpload
    /\ savedConfig = <<>>
    /\ workbook = NoWorkbook
    /\ CodecIdle /\ GapIdle /\ CallIdle /\ ExportIdle

\* handleExport up to `await buildWorkbook(...)`; the button that calls it
\* is disabled by !canExport || exporting || exportingPdf
handleExport(outcome) ==
    /\ step = "configure"
    /\ ~(~canExport(config) \/ exporting \/ exportingPdf)
    /\ Len(inFlight) < MaxInFlight
    /\ exportError' = NoError
    /\ exporting' = TRUE
    /\ inFlight' = Append(inFlight, [kind |-> "xlsx", live |-> TRUE, outcome |-> outcome])
    /\ UNCHANGED <<exportingPdf, codecVars, appVars, gapVars, callVars>>

\* handleExportPdf up to `await buildPdf(...)`; the button that calls it is
\* disabled by !canExport || exportingPdf || exporting
handleExportPdf(outcome) ==
    /\ step = "configure"
    /\ ~(~canExport(config) \/ exportingPdf \/ exporting)
    /\ Len(inFlight) < MaxInFlight
    /\ exportError' = NoError
    /\ exportingPdf' = TRUE
    /\ inFlight' = Append(inFlight, [kind |-> "pdf", live |-> TRUE, outcome |-> outcome])
    /\ UNCHANGED <<exporting, codecVars, appVars, gapVars, callVars>>

\* the rest of a handler, after its await: catch { setExportError(...) }
\* finally { setExporting(false) } or { setExportingPdf(false) }.  The
\* setters of an unmounted instance change nothing.
ExportSettles(i) ==
    /\ i \in 1..Len(inFlight)
    /\ LET e == inFlight[i]
       IN /\ inFlight' = Without(inFlight, i)
          /\ IF e.live
             THEN /\ exportError' = IF e.outcome.threw THEN MessageOf(e) ELSE exportError
                  /\ exporting' = IF e.kind = "xlsx" THEN FALSE ELSE exporting
                  /\ exportingPdf' = IF e.kind = "pdf" THEN FALSE ELSE exportingPdf
             ELSE UNCHANGED <<exporting, exportingPdf, exportError>>
    /\ UNCHANGED <<codecVars, appVars, gapVars, callVars>>

ExportNext ==
    \/ \E f \in Files : Upload(f)
    \/ Back
    \/ \E b \in BOOLEAN : PatchIncludeMasterSheet(b)
    \/ \E o \in ExportOutcomes : handleExport(o)
    \/ \E o \in ExportOutcomes : handleExportPdf(o)
    \/ \E i \in 1..MaxInFlight : ExportSettles(i)

SpecExport == ExportInit /\ [][ExportNext]_vars

\* the state part of C30 in the state a step leads to: the two flags are not
\* both true, at most one export has been started and not yet settled, and
\* while one is, the configure step shows both export buttons disabled
OneExportAfter ==
    /\ ~(exporting' /\ exportingPdf')
    /\ Len(inFlight') <= 1
    /\ (inFlight' # <<>> /\ step' = "configure") => (exporting' \/ exportingPdf')

\* the step part of C30: a step in which the export e settles leaves the
\* flag of e's kind false and, when e threw, the message in exportError
SettledAfter ==
    \A i \in 1..Len(inFlight) :
        inFlight' = Without(inFlight, i) =>
            LET e == inFlight[i]
            IN /\ e.kind = "xlsx" /\ e.live => ~exporting'
               /\ e.kind = "pdf" /\ e.live => ~exportingPdf'
               /\ e.outcome.threw => exportError' = MessageOf(e)

\* C30: at most one export is in flight in the configure step. While an xlsx
\* or a PDF export has been started and has not finished, both export
\* buttons are disabled, so exporting and exportingPdf are never both true;
\* every started export, whether it returns or throws, ends with its flag
\* false, and when it threw exportError holds the error message.
C30_OneExportInFlight == [][OneExportAfter /\ SettledAfter]_vars

====
